---- MODULE Spec2Model ----
(***************************************************************************)
(* structdef.js: readStruct / readType / writeStruct / writeType over a    *)
(* DataView, modelled as operators on JavaScript values, and the           *)
(* read-then-write flow of test.js as a state machine.                     *)
(*                                                                         *)
(* JavaScript values are tagged records:                                   *)
(*   null, undefined          [k |-> "null"], [k |-> "undefined"]          *)
(*   number                   [k |-> "num", n, d]  the rational n/d,       *)
(*                            [k |-> "nan"], [k |-> "inf", neg],           *)
(*                            [k |-> "negzero"],                           *)
(*                            [k |-> "wide", ty, b]  a number outside the  *)
(*                            exactly represented range, kept as the       *)
(*                            big-endian bytes b of its encoding ty        *)
(*   string                   [k |-> "str", s]  s the code units           *)
(*   Array                    [k |-> "arr", e]                             *)
(*   typed array              [k |-> "typed", ty, e, view, at]             *)
(*   object                   [k |-> "obj", f]  f the <<name, value>>      *)
(*                            pairs in property order                      *)
(***************************************************************************)
EXTENDS Integers, Sequences, FiniteSets, TLC

(***************************************************************************)
(* Bounds of the model.                                                    *)
(***************************************************************************)
\* longest buffer (in bytes) the decode is run on
MaxLen == 3
\* largest start offset idx[0] of a top-level call
MaxStart == 1

(***************************************************************************)
(* Strings: sequences of code units.                                       *)
(***************************************************************************)
Digits == << "0", "1", "2", "3", "4", "5", "6", "7", "8", "9" >>
Upper ==
  << "A", "B", "C", "D", "E", "F", "G", "H", "I", "J", "K", "L", "M", "N",
     "O", "P", "Q", "R", "S", "T", "U", "V", "W", "X", "Y", "Z" >>
Lower ==
  << "a", "b", "c", "d", "e", "f", "g", "h", "i", "j", "k", "l", "m", "n",
     "o", "p", "q", "r", "s", "t", "u", "v", "w", "x", "y", "z" >>
Punct ==
  << <<" ", 32>>, <<"!", 33>>, <<"*", 42>>, <<"+", 43>>, <<"-", 45>>,
     <<".", 46>>, <<"/", 47>>, <<":", 58>>, <<"=", 61>>, <<"@", 64>> >>

\* the code unit of a character (String.prototype.charCodeAt)
charCode(c) ==
  IF \E i \in 1..10 : Digits[i] = c THEN 47 + CHOOSE i \in 1..10 : Digits[i] = c
  ELSE IF \E i \in 1..26 : Upper[i] = c THEN 64 + CHOOSE i \in 1..26 : Upper[i] = c
  ELSE IF \E i \in 1..26 : Lower[i] = c THEN 96 + CHOOSE i \in 1..26 : Lower[i] = c
  ELSE Punct[CHOOSE i \in 1..Len(Punct) : Punct[i][1] = c][2]

\* the code units of a string written as a tuple of characters
Chars(t) == [i \in 1..Len(t) |-> charCode(t[i])]

Null == [k |-> "null"]
Undefined == [k |-> "undefined"]
NaN == [k |-> "nan"]
NegZero == [k |-> "negzero"]
Inf(neg) == [k |-> "inf", neg |-> neg]
Wide(ty, b) == [k |-> "wide", ty |-> ty, b |-> b]
JStr(s) == [k |-> "str", s |-> s]
\* a string literal of the schema
S(t) == JStr(Chars(t))
Arr(e) == [k |-> "arr", e |-> e]
Obj(f) == [k |-> "obj", f |-> f]
Typed(ty, e, view, at) == [k |-> "typed", ty |-> ty, e |-> e, view |-> view, at |-> at]

(***************************************************************************)
(* Numbers.                                                                *)
(***************************************************************************)
Abs(x) == IF x < 0 THEN -x ELSE x
Max(a, b) == IF a >= b THEN a ELSE b
Min(a, b) == IF a <= b THEN a ELSE b

RECURSIVE Pow2(_)
Pow2(n) == IF n <= 0 THEN 1 ELSE 2 * Pow2(n - 1)

RECURSIVE GCD(_, _)
GCD(a, b) == IF b = 0 THEN a ELSE GCD(b, a % b)

\* the integer n as a number
Num(n) == [k |-> "num", n |-> n, d |-> 1]
\* the rational n/d (d # 0) in lowest terms
Rat(n, d) ==
  LET g == GCD(Abs(n), Abs(d))
      sg == IF d < 0 THEN -1 ELSE 1
  IN [k |-> "num", n |-> sg * (n \div g), d |-> sg * (d \div g)]

IsNumber(v) == v.k \in {"num", "nan", "inf", "negzero", "wide"}
IsInt(v) == v.k = "num" /\ v.d = 1

\* number of trailing zero bits of m > 0
RECURSIVE TrailingZeros(_)
TrailingZeros(m) == IF m % 2 = 1 THEN 0 ELSE 1 + TrailingZeros(m \div 2)

\* number of bits of m > 0
RECURSIVE BitLen(_)
BitLen(m) == IF m = 0 THEN 0 ELSE 1 + BitLen(m \div 2)

\* log2 of a power of two
Log2(d) == BitLen(d) - 1

\* a value the model does not represent (never produced on the inputs explored)
Unmodelled == [k |-> "unmodelled"]

\* significant bits of the rational n/d: bits of the odd part of n
SigBits(v) == IF v.n = 0 THEN 0 ELSE BitLen(Abs(v.n) \div Pow2(TrailingZeros(Abs(v.n))))

\* the abstract equality comparison a == b of two numbers, or of two strings
LooseEq(a, b) ==
  CASE a.k = "nan" \/ b.k = "nan" -> FALSE
    [] a.k = "str" /\ b.k = "str" -> a.s = b.s
    [] a.k = "negzero" -> b.k = "negzero" \/ b = Num(0)
    [] b.k = "negzero" -> a = Num(0)
    [] OTHER -> a = b

\* whether LooseEq(a, b) is exact: a wide float64 has 22 or more significant
\* bits, so it differs from every number with fewer
EqModelled(a, b) ==
  /\ a.k # "unmodelled" /\ b.k # "unmodelled"
  /\ (a.k = "num" /\ b.k = "wide" /\ b.ty = "float64") =>
       (a.d = Pow2(Log2(a.d)) /\ SigBits(a) <= 21)
  /\ (a.k = "wide" /\ b.k = "wide") => a.ty = b.ty

\* src/structdef.js:17
eqCmp(a, b) == LooseEq(a, b)
\* src/structdef.js:18
neqCmp(a, b) == ~LooseEq(a, b)

\* a is truthy (ToBoolean)
Truthy(v) ==
  CASE v.k \in {"null", "undefined", "nan", "negzero"} -> FALSE
    [] v.k = "num" -> v.n # 0
    [] v.k = "str" -> v.s # <<>>
    [] OTHER -> TRUE

\* v == null
IsNullish(v) == v.k \in {"null", "undefined"}

(***************************************************************************)
(* String operations of the tag parser.                                    *)
(***************************************************************************)
\* String.prototype.indexOf(c) > -1 for a one-character c
Contains(s, c) == \E i \in 1..Len(s) : s[i] = c

\* index of the first c in s at or after i, or Len(s) + 1
RECURSIVE FindFrom(_, _, _)
FindFrom(s, c, i) ==
  IF i > Len(s) \/ s[i] = c THEN i ELSE FindFrom(s, c, i + 1)

\* String.prototype.split(c) for a one-character separator c
RECURSIVE Split(_, _)
Split(s, c) ==
  LET j == FindFrom(s, c, 1)
  IN IF j > Len(s) THEN <<s>>
     ELSE <<SubSeq(s, 1, j - 1)>> \o Split(SubSeq(s, j + 1, Len(s)), c)

IsWhite(c) == c \in {9, 10, 11, 12, 13, 32}
IsDigit(c) == c >= 48 /\ c <= 57

\* value of the digit c in the radix, or -1
DigitVal(c, radix) ==
  LET v == IF IsDigit(c) THEN c - 48
           ELSE IF c >= 97 /\ c <= 122 THEN c - 87
           ELSE IF c >= 65 /\ c <= 90 THEN c - 55
           ELSE 99
  IN IF v < radix THEN v ELSE -1

RECURSIVE SkipWhite(_, _)
SkipWhite(s, i) == IF i <= Len(s) /\ IsWhite(s[i]) THEN SkipWhite(s, i + 1) ELSE i

\* first index at or after i that holds no digit of the radix
RECURSIVE DigitsEnd(_, _, _)
DigitsEnd(s, i, radix) ==
  IF i <= Len(s) /\ DigitVal(s[i], radix) >= 0 THEN DigitsEnd(s, i + 1, radix) ELSE i

\* value of the digits s[i..j-1]
RECURSIVE DigitsValue(_, _, _, _)
DigitsValue(s, i, j, radix) ==
  IF j <= i THEN 0
  ELSE DigitsValue(s, i, j - 1, radix) * radix + DigitVal(s[j - 1], radix)

\* longest digit string the model evaluates exactly
MaxDigits == 7

\* parseInt(s): [ws][sign][0x]digits, each part read by the operator named
\* after it
parseInt(s) ==
  LET value(neg, n) == IF neg /\ n = 0 THEN NegZero ELSE Num(IF neg THEN -n ELSE n)
      digits(neg, i2, j, radix) ==
        IF j = i2 THEN NaN
        ELSE IF j - i2 > MaxDigits THEN Unmodelled
        ELSE value(neg, DigitsValue(s, i2, j, radix))
      radixed(neg, i2, radix) == digits(neg, i2, DigitsEnd(s, i2, radix), radix)
      prefix(neg, i1, hex) ==
        radixed(neg, IF hex THEN i1 + 2 ELSE i1, IF hex THEN 16 ELSE 10)
      sign(neg, i1) ==
        prefix(neg, i1, i1 + 1 <= Len(s) /\ s[i1] = 48 /\ s[i1 + 1] \in {88, 120})
      white(i0) ==
        sign(i0 <= Len(s) /\ s[i0] = 45,
             IF i0 <= Len(s) /\ s[i0] \in {43, 45} THEN i0 + 1 ELSE i0)
  IN white(SkipWhite(s, 1))

RECURSIVE Pow10(_)
Pow10(n) == IF n <= 0 THEN 1 ELSE 10 * Pow10(n - 1)

\* the code units of "Infinity"
InfinityStr == <<73, 110, 102, 105, 110, 105, 116, 121>>

\* parseFloat(s): [ws][sign](Infinity | digits[.digits] | .digits), each part
\* read by the operator named after it; a decimal exponent is not evaluated
parseFloat(s) ==
  LET value(neg, n, d) ==
        IF n = 0 THEN (IF neg THEN NegZero ELSE Num(0))
        ELSE Rat(IF neg THEN -n ELSE n, d)
      exponent(f1) ==
        /\ f1 + 1 <= Len(s) /\ s[f1] \in {69, 101}
        /\ \/ IsDigit(s[f1 + 1])
           \/ s[f1 + 1] \in {43, 45} /\ f1 + 2 <= Len(s) /\ IsDigit(s[f1 + 2])
      number(neg, i1, j, f0, f1) ==
        IF i1 + 7 <= Len(s) /\ SubSeq(s, i1, i1 + 7) = InfinityStr THEN Inf(neg)
        ELSE IF j = i1 /\ f1 = f0 THEN NaN
        ELSE IF exponent(f1) \/ (j - i1) + (f1 - f0) > MaxDigits THEN Unmodelled
        ELSE value(neg,
                   DigitsValue(s, i1, j, 10) * Pow10(f1 - f0) + DigitsValue(s, f0, f1, 10),
                   Pow10(f1 - f0))
      fraction(neg, i1, j, dot) ==
        number(neg, i1, j, IF dot THEN j + 1 ELSE j,
               IF dot THEN DigitsEnd(s, j + 1, 10) ELSE j)
      digits(neg, i1, j) == fraction(neg, i1, j, j <= Len(s) /\ s[j] = 46)
      sign(neg, i1) == digits(neg, i1, DigitsEnd(s, i1, 10))
      white(i0) ==
        sign(i0 <= Len(s) /\ s[i0] = 45,
             IF i0 <= Len(s) /\ s[i0] \in {43, 45} THEN i0 + 1 ELSE i0)
  IN white(SkipWhite(s, 1))

(***************************************************************************)
(* DataView: [buffer, byteOffset, byteLength]; buffer is the byte sequence *)
(* of the underlying ArrayBuffer.                                          *)
(***************************************************************************)
DataView(buffer, byteOffset) ==
  [buffer |-> buffer, byteOffset |-> byteOffset, byteLength |-> Len(buffer) - byteOffset]

Reverse(b) == [i \in 1..Len(b) |-> b[Len(b) + 1 - i]]

\* a DataView access of n bytes at i is in range (else it throws RangeError)
InRange(view, i, n) == i >= 0 /\ i + n <= view.byteLength

\* the n bytes at i, most significant first
BytesAt(view, i, n, le) ==
  LET raw == [j \in 1..n |-> view.buffer[view.byteOffset + i + j]]
  IN IF le THEN Reverse(raw) ELSE raw

\* unsigned value of big-endian bytes (below 2^31)
RECURSIVE UintOf(_)
UintOf(b) == IF b = <<>> THEN 0 ELSE UintOf(SubSeq(b, 1, Len(b) - 1)) * 256 + b[Len(b)]

\* unsigned integer of the big-endian bytes b
UnsignedOf(b) ==
  IF Len(b) = 4 /\ b[1] >= 128 THEN Wide("uint32", b) ELSE Num(UintOf(b))

\* two's complement integer of the big-endian bytes b
SignedOf(b) ==
  IF b[1] >= 128
  THEN Num(UintOf(<<b[1] - 128>> \o Tail(b)) - Pow2(8 * Len(b) - 2) - Pow2(8 * Len(b) - 2))
  ELSE Num(UintOf(b))

\* the number m * 2^e (m > 0) negated when neg; ty, b its encoding
Scaled(neg, m, e, ty, b) ==
  LET value(sg, odd, e2) ==
        IF e2 >= 0 THEN (IF e2 <= 30 /\ odd \div 2 < Pow2(30 - e2) THEN Num(sg * odd * Pow2(e2))
                         ELSE Wide(ty, b))
        ELSE IF -e2 <= 30 THEN Rat(sg * odd, Pow2(-e2))
        ELSE Wide(ty, b)
      reduced(z) == value(IF neg THEN -1 ELSE 1, m \div Pow2(z), e + z)
  IN reduced(TrailingZeros(m))

\* IEEE 754 binary32 value of the big-endian bytes b
Float32Of(b) ==
  LET value(neg, e, m) ==
        IF e = 255 THEN (IF m = 0 THEN Inf(neg) ELSE NaN)
        ELSE IF e = 0 /\ m = 0 THEN (IF neg THEN NegZero ELSE Num(0))
        ELSE IF e = 0 THEN Wide("float32", b)
        ELSE Scaled(neg, 8388608 + m, e - 150, "float32", b)
  IN value(b[1] >= 128, (b[1] % 128) * 2 + b[2] \div 128,
           (b[2] % 128) * 65536 + b[3] * 256 + b[4])

\* IEEE 754 binary64 value of the big-endian bytes b
Float64Of(b) ==
  LET value(neg, e, mhi, lowZero) ==
        IF e = 2047 THEN (IF mhi = 0 /\ lowZero THEN Inf(neg) ELSE NaN)
        ELSE IF e = 0 /\ mhi = 0 /\ lowZero THEN (IF neg THEN NegZero ELSE Num(0))
        ELSE IF e = 0 \/ ~lowZero THEN Wide("float64", b)
        ELSE Scaled(neg, 1048576 + mhi, e - 1043, "float64", b)
  IN value(b[1] >= 128, (b[1] % 128) * 16 + b[2] \div 16,
           (b[2] % 16) * 65536 + b[3] * 256 + b[4], \A i \in 5..8 : b[i] = 0)

\* natural size in bytes of a scalar type
SizeOf(ty) ==
  CASE ty \in {"uint8", "int8"} -> 1
    [] ty \in {"uint16", "int16"} -> 2
    [] ty \in {"uint32", "int32", "float32"} -> 4
    [] ty = "float64" -> 8

\* the number that the bytes b (most significant first) encode as type ty
Decode(ty, b) ==
  CASE ty \in {"uint8", "uint16", "uint32"} -> UnsignedOf(b)
    [] ty \in {"int8", "int16", "int32"} -> SignedOf(b)
    [] ty = "float32" -> Float32Of(b)
    [] ty = "float64" -> Float64Of(b)

\* dataView.getUint8 ... getFloat64 (idx, le), in range
Get(view, ty, i, le) == Decode(ty, BytesAt(view, i, SizeOf(ty), le))

\* the n low-order bytes, most significant first, of the integer x >= 0
RECURSIVE BytesOfNat(_, _)
BytesOfNat(x, n) ==
  IF n = 0 THEN <<>> ELSE BytesOfNat(x \div 256, n - 1) \o <<x % 256>>

\* the rational n/d truncated toward zero
Trunc(v) == IF v.n >= 0 THEN v.n \div v.d ELSE -((-v.n) \div v.d)

\* the n bytes setUint/setInt store for the number v (ToInt32 modulo 2^(8n))
IntBytes(v, n) ==
  LET negative(b) == SubSeq(<<b[1] + 128>> \o Tail(b), 5 - n, 4)
      int(x) == IF x >= 0 THEN BytesOfNat(x, n)
                ELSE negative(BytesOfNat((x + 2147483647) + 1, 4))
  IN CASE v.k \in {"nan", "inf", "negzero", "undefined", "null"} -> [i \in 1..n |-> 0]
       [] v.k = "wide" /\ v.ty = "uint32" -> SubSeq(v.b, 5 - n, 4)
       [] v.k = "num" -> int(Trunc(v))
       [] OTHER -> <<>>

\* the canonical quiet NaN a store of NaN writes
NaNBytes(ty) ==
  IF ty = "float32" THEN <<127, 192, 0, 0>> ELSE <<127, 248, 0, 0, 0, 0, 0, 0>>

\* the bytes setFloat32 / setFloat64 store for the number v; <<>> where the
\* value needs rounding, which the model does not evaluate
FloatBytes(v, ty) ==
  LET mbits == IF ty = "float32" THEN 23 ELSE 20
      ebits == IF ty = "float32" THEN 8 ELSE 11
      bias == IF ty = "float32" THEN 127 ELSE 1023
      pad == IF ty = "float32" THEN <<>> ELSE <<0, 0, 0, 0>>
      Pack(neg, e, m) ==
        BytesOfNat(((IF neg THEN Pow2(ebits) ELSE 0) + e) * Pow2(mbits - 16) + m \div 65536, 2)
          \o BytesOfNat(m % 65536, 2) \o pad
      binary(odd, len, e) ==
        IF len > mbits + 1 \/ v.d # Pow2(Log2(v.d)) \/ e < 1 \/ e > Pow2(ebits) - 2
        THEN <<>>
        ELSE Pack(v.n < 0, e, (odd - Pow2(len - 1)) * Pow2(mbits + 1 - len))
      measured(z, odd, len) == binary(odd, len, z - Log2(v.d) + (len - 1) + bias)
      shifted(z, odd) == measured(z, odd, BitLen(odd))
      magnitude(a, z) == shifted(z, a \div Pow2(z))
  IN CASE v.k \in {"nan", "undefined"} -> NaNBytes(ty)
       [] v.k = "inf" -> Pack(v.neg, Pow2(ebits) - 1, 0)
       [] v.k = "negzero" -> Pack(TRUE, 0, 0)
       [] v.k = "null" -> Pack(FALSE, 0, 0)
       [] v.k = "wide" -> IF v.ty = ty THEN v.b ELSE <<>>
       [] v.k = "num" ->
            IF v.n = 0 THEN Pack(FALSE, 0, 0)
            ELSE magnitude(Abs(v.n), TrailingZeros(Abs(v.n)))
       [] OTHER -> <<>>

\* the bytes, most significant first, that a store of v as type ty writes
Encode(ty, v) ==
  IF ty \in {"float32", "float64"} THEN FloatBytes(v, ty) ELSE IntBytes(v, SizeOf(ty))

\* the buffer after dataView.setXxx(i, v, le), in range
Set(view, ty, i, v, le) ==
  LET store(b, n) ==
        [view EXCEPT !.buffer =
           [j \in 1..Len(view.buffer) |->
              IF j > view.byteOffset + i /\ j <= view.byteOffset + i + n
              THEN b[j - view.byteOffset - i] ELSE view.buffer[j]]]
      encoded(b) == store(IF le THEN Reverse(b) ELSE b, SizeOf(ty))
  IN encoded(Encode(ty, v))

\* def: the definition (schema node) given to the call; parts: how the tag
\* of a one-tag definition was written; dv: the DataView; start: idx[0]
\* before the call; littleEndian: ArrayBuffer.littleEndian of the platform
\* (src/structdef.js:332); pc: the call made last; res, wres: the outcome of
\* the read and of the write
\* stream: the DataStream object (src/DataStream.js); writes: the values of
\* the writeUint8 calls made so far on a stream constructed without
\* capacity, while no other call was made; call: the call made last, with
\* the stream before it and its outcome
\* array: a typed array given to flipArrayEndianness, with the bytes its
\* buffer held at first and the number of calls made; abv: the typed arrays
\* the accessors of an ABStruct class have cached (src/ABstruct.js:29)
VARIABLES def, parts, dv, start, littleEndian, pc, res, wres,
          stream, writes, call, array, abv

streamVars == <<stream, writes, call>>

auxVars == <<array, abv>>

vars ==
  <<def, parts, dv, start, littleEndian, pc, res, wres, stream, writes, call, array, abv>>


(***************************************************************************)
(* Tag parsing (src/structdef.js:21-40).                                   *)
(***************************************************************************)
\* the scalar type names of the switch, as the model names them
ScalarTypes == {"uint8", "int8", "uint16", "int16", "uint32", "int32", "float32", "float64"}

\* the type names of the switch, as code units
Names ==
  [ty \in ScalarTypes \cup {"string", "cstring"} |->
  CASE ty = "uint8" -> <<117, 105, 110, 116, 56>>
    [] ty = "int8" -> <<105, 110, 116, 56>>
    [] ty = "uint16" -> <<117, 105, 110, 116, 49, 54>>
    [] ty = "int16" -> <<105, 110, 116, 49, 54>>
    [] ty = "uint32" -> <<117, 105, 110, 116, 51, 50>>
    [] ty = "int32" -> <<105, 110, 116, 51, 50>>
    [] ty = "float32" -> <<102, 108, 111, 97, 116, 51, 50>>
    [] ty = "float64" -> <<102, 108, 111, 97, 116, 54, 52>>
    [] ty = "string" -> <<115, 116, 114, 105, 110, 103>>
    [] ty = "cstring" -> <<99, 115, 116, 114, 105, 110, 103>>]

\* the code units of a type name
NameOf(ty) == Names[ty]

\* the code units of "le"
LeSuffix == <<108, 101>>

\* /^(u?int(8|16|32)|float(32|64))le$/.test(s)
LeNames == {NameOf(ty) \o LeSuffix : ty \in ScalarTypes}

IsLeName(s) == s \in LeNames

\* /^(u?int(8|16|32)|float(32|64))(le)?$/.test(s)
IsTypedName(s) == s \in LeNames \/ \E ty \in ScalarTypes : s = NameOf(ty)

\* the case of switch(t) that the string s selects, "" for default
CaseOf(s) ==
  IF \E ty \in ScalarTypes \cup {"string", "cstring"} : s = NameOf(ty)
  THEN CHOOSE ty \in ScalarTypes \cup {"string", "cstring"} : s = NameOf(ty)
  ELSE ""

\* variant of ParseTag: the '!' that negates is the one that ends the
\* reference
ParseTagTrailing(s) ==
  LET hasEq == Contains(s, 61)
      tr == Split(s, 61)
      t1 == IF hasEq THEN tr[1] ELSE s
      neg == hasEq /\ tr[2] # <<>> /\ tr[2][Len(tr[2])] = 33
      hasColon == Contains(t1, 58)
      tp == Split(t1, 58)
      t3 == IF hasColon THEN tp[1] ELSE t1
      le == IsLeName(t3)
  IN [t |-> IF le THEN SubSeq(t3, 1, Len(t3) - 2) ELSE t3,
      ref |-> IF hasEq THEN JStr(IF neg THEN SubSeq(tr[2], 1, Len(tr[2]) - 1) ELSE tr[2])
              ELSE Undefined,
      cmp |-> IF neg THEN "neqCmp" ELSE "eqCmp",
      paddedTo |-> IF hasColon THEN parseInt(tp[2]) ELSE Num(0),
      le |-> le]

\* t, ref, cmp, paddedTo and le after lines 23-40, for a string t: equals is
\* lines 23-31, colon lines 32-36 and suffix lines 37-40
ParseTag(s) ==
  LET suffix(t3, ref, neg, paddedTo, le) ==
        [t |-> IF le THEN SubSeq(t3, 1, Len(t3) - 2) ELSE t3,
         ref |-> ref,
         cmp |-> IF neg THEN "neqCmp" ELSE "eqCmp",
         paddedTo |-> paddedTo,
         le |-> le]
      padded(t3, ref, neg, paddedTo) == suffix(t3, ref, neg, paddedTo, IsLeName(t3))
      split(t2, ref, neg, hasColon, tp) ==
        padded(IF hasColon THEN tp[1] ELSE t2, ref, neg,
               IF hasColon THEN parseInt(tp[2]) ELSE Num(0))
      colon(t2, ref, neg) == split(t2, ref, neg, Contains(t2, 58), Split(t2, 58))
      bang(t1, ref, neg) ==
        colon(IF neg THEN SubSeq(t1, 1, Len(t1) - 1) ELSE t1, ref, neg)
      compared(t1, ref, hasEq) == bang(t1, ref, hasEq /\ t1 # <<>> /\ t1[Len(t1)] = 33)
      equals(hasEq, tr) ==
        compared(IF hasEq THEN tr[1] ELSE s, IF hasEq THEN JStr(tr[2]) ELSE Undefined, hasEq)
  IN equals(Contains(s, 61), Split(s, 61))

\* cmp(a, b) for the comparison the tag selected
Cmp(cmp, a, b) == IF cmp = "neqCmp" THEN neqCmp(a, b) ELSE eqCmp(a, b)

(***************************************************************************)
(* Results of a call: st is "ok" or the error thrown; v the value          *)
(* returned; idx the content of idx[0], view the DataView (its buffer may  *)
(* have been changed) and log the readType calls made so far, each with    *)
(* the node it was given and idx[0] on entry.                              *)
(***************************************************************************)
Ret(v, idx, view, log) == [st |-> "ok", v |-> v, idx |-> idx, view |-> view, log |-> log]
Throw(e, idx, view, log) == [st |-> e, v |-> Undefined, idx |-> idx, view |-> view, log |-> log]

\* struct[name]
GetProp(struct, name) ==
  IF struct.k = "obj" /\ \E i \in 1..Len(struct.f) : struct.f[i][1] = name
  THEN struct.f[CHOOSE i \in 1..Len(struct.f) : struct.f[i][1] = name][2]
  ELSE Undefined

\* struct after struct[name] = v
SetProp(struct, name, v) ==
  IF \E i \in 1..Len(struct.f) : struct.f[i][1] = name
  THEN Obj([i \in 1..Len(struct.f) |->
              IF struct.f[i][1] = name THEN <<name, v>> ELSE struct.f[i]])
  ELSE Obj(Append(struct.f, <<name, v>>))

(***************************************************************************)
(* readType, scalar, string and cstring cases (src/structdef.js:43-113).   *)
(***************************************************************************)
\* the reference value as the case parses it
RefValue(ty, ref) ==
  IF ty \in {"float32", "float64"} THEN parseFloat(ref.s)
  ELSE IF ty \in ScalarTypes THEN parseInt(ref.s)
  ELSE ref

\* variant of Mismatch: the reference is never compared
MismatchNever(tag, ty, v) == FALSE

\* ref != null && !cmp(parse(ref), v)
Mismatch(tag, ty, v) == tag.ref.k = "str" /\ ~Cmp(tag.cmp, RefValue(ty, tag.ref), v)

\* the comparison of Mismatch is one the model evaluates exactly
CmpModelled(tag, ty, v) == tag.ref.k = "str" => EqModelled(RefValue(ty, tag.ref), v)

\* variant of MathMax: the padding is ignored
MathMaxNatural(n, paddedTo) == n

\* Math.max(n, paddedTo), for a paddedTo that is a number
MathMax(n, paddedTo) ==
  CASE paddedTo.k = "num" -> Max(n, paddedTo.n)
    [] paddedTo.k = "negzero" -> Max(n, 0)

\* variant of readScalar: idx[0] is advanced before the reference is compared
readScalarAdvanced(view, idx, tag, ty, log) ==
  IF ~InRange(view, idx, SizeOf(ty)) THEN Throw("RangeError", idx, view, log)
  ELSE LET v == Get(view, ty, idx, tag.le)
           after == idx + MathMax(SizeOf(ty), tag.paddedTo)
       IN IF Mismatch(tag, ty, v) THEN Ret(Null, after, view, log) ELSE Ret(v, after, view, log)

\* variant of readScalar: idx[0] is not advanced
readScalarStill(view, idx, tag, ty, log) ==
  IF ~InRange(view, idx, SizeOf(ty)) THEN Throw("RangeError", idx, view, log)
  ELSE LET v == Get(view, ty, idx, tag.le)
       IN IF Mismatch(tag, ty, v) THEN Ret(Null, idx, view, log) ELSE Ret(v, idx, view, log)

\* case 'uint8' ... case 'float64'; compared(v) is the second and third
\* line of the case for the v that its first line reads
readScalar(view, idx, tag, ty, log) ==
  LET compared(v) ==
        IF ~CmpModelled(tag, ty, v) \/ tag.paddedTo.k \notin {"num", "negzero"}
        THEN Throw("unmodelled", idx, view, log)
        ELSE IF Mismatch(tag, ty, v) THEN Ret(Null, idx, view, log)
        ELSE Ret(v, idx + MathMax(SizeOf(ty), tag.paddedTo), view, log)
  IN IF ~InRange(view, idx, SizeOf(ty)) THEN Throw("RangeError", idx, view, log)
     ELSE compared(Get(view, ty, idx, tag.le))

\* case 'string'; compared(n, v) is lines 91-93 for the v that the loop built
\* from n bytes
readString(view, idx, tag, log) ==
  LET compared(n, v) ==
        IF n > 0 /\ ~InRange(view, idx, n) THEN Throw("RangeError", idx, view, log)
        ELSE IF tag.paddedTo.k \notin {"num", "negzero"} \/ idx + n < 0
        THEN Throw("unmodelled", idx, view, log)
        ELSE IF Mismatch(tag, "string", v) THEN Ret(Null, idx, view, log)
        ELSE Ret(v, idx + n, view, log)
      loop(n) == compared(n, JStr(BytesAt(view, idx, n, FALSE)))
  IN loop(IF tag.paddedTo.k = "num" THEN tag.paddedTo.n ELSE 0)

\* the first i >= from, below limit when limit >= 0, with byte idx + i zero or
\* out of range
RECURSIVE ScanZero(_, _, _, _)
ScanZero(view, idx, from, limit) ==
  IF limit >= 0 /\ from >= limit THEN from
  ELSE IF ~InRange(view, idx + from, 1) THEN from
  ELSE IF BytesAt(view, idx + from, 1, FALSE)[1] = 0 THEN from
  ELSE ScanZero(view, idx, from + 1, limit)

\* case 'cstring'; the loop stopped at byte idx + stop, atEnd when it ran to
\* the padding; compared(v, i) is lines 111-113
readCString(view, idx, tag, log) ==
  LET compared(stop, atEnd, v, i) ==
        IF ~atEnd /\ ~InRange(view, idx + stop, 1) THEN Throw("RangeError", idx, view, log)
        ELSE IF tag.paddedTo.k \notin {"num", "negzero"} THEN Throw("unmodelled", idx, view, log)
        ELSE IF Mismatch(tag, "cstring", v) THEN Ret(Null, idx, view, log)
        ELSE Ret(v, idx + MathMax(i, tag.paddedTo), view, log)
      \* i after the loop: the padded loop breaks at the terminator, the
      \* unpadded one has post-incremented past it
      stopped(padded, limit, stop) ==
        compared(stop, padded /\ stop >= limit, JStr(BytesAt(view, idx, stop, FALSE)),
                 IF padded THEN stop ELSE stop + 1)
      loop(padded, limit) ==
        stopped(padded, limit,
                IF padded /\ limit < 0 THEN 0 ELSE ScanZero(view, idx, 0, limit))
      branch(padded) == loop(padded, IF padded THEN tag.paddedTo.n ELSE -1)
  IN branch(tag.paddedTo.k = "num" /\ tag.paddedTo.n # 0)

(***************************************************************************)
(* Array length specifiers (src/structdef.js:119-167).                     *)
(***************************************************************************)
\* /[\*\-\+\/]/ matches the character
IsOp(c) == c \in {42, 43, 45, 47}

\* length.replace(/\s+/g, '')
StripWhite(s) == SelectSeq(s, LAMBDA c : ~IsWhite(c))

\* s.split(/(?=[\*\-\+\/])/): cut before every operator but one at the start
RECURSIVE SplitOps(_)
SplitOps(s) ==
  IF \E j \in 2..Len(s) : IsOp(s[j])
  THEN LET j == CHOOSE x \in 2..Len(s) : IsOp(s[x]) /\ \A y \in 2..(x - 1) : ~IsOp(s[y])
       IN <<SubSeq(s, 1, j - 1)>> \o SplitOps(SubSeq(s, j, Len(s)))
  ELSE <<s>>

\* ToNumber of an operand of the length arithmetic
ToNum(v) ==
  CASE v.k \in {"num", "nan"} -> v
    [] v.k = "undefined" -> NaN
    [] v.k = "negzero" -> Num(0)
    [] OTHER -> Unmodelled

\* the operands are within the range the arithmetic below keeps exact
ArithExact(a, b) ==
  /\ a.d <= 64 /\ b.d <= 64
  /\ \/ Abs(a.n) <= 32767 /\ Abs(b.n) <= 32767
     \/ Abs(a.n) <= 4194304 /\ Abs(b.n) <= 255
     \/ Abs(b.n) <= 4194304 /\ Abs(a.n) <= 255

\* sum += seg, sum -= seg, sum /= seg, sum *= seg (lines 145-150)
Arith(cmd, sum, seg) ==
  LET on(a, b) ==
        IF a.k = "unmodelled" \/ b.k = "unmodelled" THEN Unmodelled
        ELSE IF a.k = "nan" \/ b.k = "nan" THEN NaN
        ELSE IF ~ArithExact(a, b) THEN Unmodelled
        ELSE CASE cmd = 43 -> Rat(a.n * b.d + b.n * a.d, a.d * b.d)
               [] cmd = 45 -> Rat(a.n * b.d - b.n * a.d, a.d * b.d)
               [] cmd = 42 -> Rat(a.n * b.n, a.d * b.d)
               [] cmd = 47 -> IF b.n # 0 THEN Rat(a.n * b.d, a.d * b.n)
                              ELSE IF a.n = 0 THEN NaN ELSE Inf(a.n < 0)
  IN on(ToNum(sum), ToNum(seg))

\* one term of the expression: its operator and its value (lines 133-144)
Term(seg, struct) ==
  LET valued(cmd, body) ==
        [cmd |-> cmd,
         val |-> IF body # <<>> /\ \A i \in 1..Len(body) : IsDigit(body[i])
                 THEN parseInt(body) ELSE GetProp(struct, body)]
      command(hasCmd) ==
        valued(IF hasCmd THEN seg[1] ELSE 43, IF hasCmd THEN Tail(seg) ELSE seg)
  IN command(seg # <<>> /\ IsOp(seg[1]))

\* the loop of lines 131-152 over segs[j..], from sum
RECURSIVE EvalSegs(_, _, _, _)
EvalSegs(segs, j, sum, struct) ==
  LET apply(term) == EvalSegs(segs, j + 1, Arith(term.cmd, sum, term.val), struct)
  IN IF j > Len(segs) THEN sum ELSE apply(Term(segs[j], struct))

\* variant of EvalLength: the sum starts from 1
EvalLengthFromOne(s, struct) == EvalSegs(SplitOps(StripWhite(s)), 1, Num(1), struct)

\* the length an arithmetic length specifier evaluates to (lines 130-153)
EvalLength(s, struct) == EvalSegs(SplitOps(StripWhite(s)), 1, Num(0), struct)

\* ToIndex(length) of the typed array constructors: <<"n", n>>, or the error
ToIndex(length) ==
  CASE length.k \in {"undefined", "nan", "negzero", "null"} -> <<"n", 0>>
    [] length.k = "num" -> IF Trunc(length) < 0 THEN <<"RangeError", 0>>
                           ELSE <<"n", Trunc(length)>>
    [] length.k = "inf" -> <<"RangeError", 0>>
    [] length.k = "wide" /\ length.ty = "uint32" -> <<"RangeError", 0>>
    [] OTHER -> <<"unmodelled", 0>>

\* new Array(length): <<"n", n>>, <<"single", 0>> for the one-element array
\* [length] of a length that is no number, or the error
ArrayLength(length) ==
  CASE length.k = "num" -> IF length.d = 1 /\ length.n >= 0 THEN <<"n", length.n>>
                           ELSE <<"RangeError", 0>>
    [] length.k = "negzero" -> <<"n", 0>>
    [] length.k \in {"nan", "inf"} -> <<"RangeError", 0>>
    [] length.k = "undefined" -> <<"single", 0>>
    [] OTHER -> <<"unmodelled", 0>>

(***************************************************************************)
(* Typed arrays (src/structdef.js:168-228, 332-360).  A typed array is     *)
(* handled as the bytes it holds, bytesPerElement at a time.               *)
(***************************************************************************)
\* the bytes of the array after flipArrayEndianness(array)
flipArrayEndianness(bytes, bytesPerElement) ==
  [i \in 1..Len(bytes) |->
     LET first == ((i - 1) \div bytesPerElement) * bytesPerElement + 1
     IN bytes[first + (bytesPerElement - 1) - (i - first)]]

\* the bytes of the array after arrayToNative(array, arrayIsLittleEndian)
arrayToNative(bytes, bytesPerElement, arrayIsLittleEndian) ==
  IF arrayIsLittleEndian = littleEndian THEN bytes
  ELSE flipArrayEndianness(bytes, bytesPerElement)

\* the elements a typed array over the bytes holds on this platform
Elements(ty, bytes) ==
  LET element(b) == Decode(ty, IF littleEndian THEN Reverse(b) ELSE b)
      sized(size) ==
        [i \in 1..(Len(bytes) \div size) |->
           element(SubSeq(bytes, (i - 1) * size + 1, i * size))]
  IN sized(SizeOf(ty))

\* the test that selects new XxxArray(dataView.buffer, idx[0], length) over
\* the copy (lines 171-224)
UsesView(ty, idx) ==
  CASE ty \in {"uint8", "int8"} -> TRUE
    [] ty \in {"uint16", "int16"} -> idx % 8 = 2
    [] ty \in {"uint32", "int32"} -> idx % 8 = 4
    [] ty = "float32" -> idx % 4 = 0
    [] ty = "float64" -> idx % 8 = 0

\* lines 168-228: ta names the element type, length is the resolved length;
\* made is lines 226-228 for the array of n elements over the bytes native
readTypedArray(view, idx, ta, length, log) ==
  LET total == Len(view.buffer)
      made(ty, size, usesView, n, native) ==
        Ret(Typed(ty, Elements(ty, native), usesView, idx), idx + n * size,
            IF usesView
            THEN [view EXCEPT !.buffer =
                    [j \in 1..total |->
                       IF j > idx /\ j <= idx + n * size THEN native[j - idx]
                       ELSE view.buffer[j]]]
            ELSE view,
            log)
      sized(le, ty, size, usesView, rest, ix, n) ==
        IF idx < 0 THEN Throw("unmodelled", idx, view, log)
        ELSE IF ~rest /\ ix[1] # "n" THEN Throw(ix[1], idx, view, log)
        ELSE IF idx > total \/ n > total \/ idx + n * size > total
                \/ (rest /\ (total - idx) % size # 0)
        THEN Throw("RangeError", idx, view, log)
        ELSE made(ty, size, usesView, n,
                  arrayToNative(SubSeq(view.buffer, idx + 1, idx + n * size), size, le))
      counted(le, ty, size, usesView, rest, ix) ==
        sized(le, ty, size, usesView, rest, ix,
              IF rest THEN (total - idx) \div size ELSE ix[2])
      constructed(le, ty, usesView) ==
        counted(le, ty, SizeOf(ty), usesView, usesView /\ length.k = "undefined",
                ToIndex(length))
      typed(le, ty) == constructed(le, ty, UsesView(ty, idx))
      named(le) == typed(le, CaseOf(IF le THEN SubSeq(ta, 1, Len(ta) - 2) ELSE ta))
  IN named(IsLeName(ta))

(***************************************************************************)
(* readStruct and readType (src/structdef.js:4-15, 20-240).                *)
(***************************************************************************)
\* most elements of an array of elements that consume nothing
RepeatCap == 300

\* the code units of '*'
Star == <<42>>

\* the property names for (n in def) visits, each with its value
FieldsOf(d) ==
  CASE d.k = "obj" -> d.f
    [] d.k = "arr" -> [i \in 1..Len(d.e) |-> <<(<<47 + i>>), d.e[i]>>]
    [] OTHER -> <<>>

RECURSIVE readStruct(_, _, _, _)
RECURSIVE readType(_, _, _, _, _)
RECURSIVE readFields(_, _, _, _, _, _)
RECURSIVE readStar(_, _, _, _, _, _)
RECURSIVE readElements(_, _, _, _, _, _, _)
RECURSIVE readBranch(_, _, _, _, _, _)

\* variant of readFields: a field that decodes to null is stored and the
\* loop goes on
readFieldsOn(view, idx, fields, i, struct, log) ==
  LET store(r) ==
        IF r.st # "ok" THEN r
        ELSE readFields(r.view, r.idx, fields, i + 1,
                        SetProp(struct, fields[i][1], r.v), r.log)
  IN IF i > Len(fields) THEN Ret(struct, idx, view, log)
     ELSE store(readType(view, idx, fields[i][2], struct, log))

\* the loop of readStruct from field i on (lines 6-13); store(r) is lines
\* 9-12 for the outcome r of line 8
readFields(view, idx, fields, i, struct, log) ==
  LET store(r) ==
        IF r.st # "ok" THEN r
        ELSE IF IsNullish(r.v) THEN Ret(Null, r.idx, r.view, r.log)
        ELSE readFields(r.view, r.idx, fields, i + 1,
                        SetProp(struct, fields[i][1], r.v), r.log)
  IN IF i > Len(fields) THEN Ret(struct, idx, view, log)
     ELSE store(readType(view, idx, fields[i][2], struct, log))

\* readStruct(dataView, idx, structDefinition); a non-empty string as the
\* definition recurses on its first character without end
readStruct(view, idx, structDefinition, log) ==
  IF structDefinition.k = "str" /\ structDefinition.s # <<>>
  THEN Throw("RangeError", idx, view, log)
  ELSE IF structDefinition.k = "arr" /\ Len(structDefinition.e) > 10
  THEN Throw("unmodelled", idx, view, log)
  ELSE readFields(view, idx, FieldsOf(structDefinition), 1, Obj(<<>>), log)

\* the '*' loop (lines 121-128) with v = acc; push(r) is lines 125-126 for
\* the outcome r of line 124
readStar(view, idx, ta, struct, acc, log) ==
  LET push(r) ==
        IF r.st # "ok" THEN r
        ELSE IF ~Truthy(r.v) THEN Ret(Arr(acc), r.idx, r.view, r.log)
        ELSE IF r.idx = idx /\ r.view = view THEN Throw("diverge", idx, view, r.log)
        ELSE IF r.idx <= idx THEN Throw("unmodelled", idx, view, r.log)
        ELSE readStar(r.view, r.idx, ta, struct, Append(acc, r.v), r.log)
  IN IF ~(idx < view.byteLength) THEN Ret(Arr(acc), idx, view, log)
     ELSE push(readType(view, idx, ta, struct, log))

\* the element loop (lines 231-233) with v[0..Len(acc)-1] = acc; put(r) is
\* the assignment of line 232 for the outcome r of its call
readElements(view, idx, ta, struct, length, acc, log) ==
  LET put(r) ==
        IF r.st # "ok" THEN r
        ELSE IF length > RepeatCap /\ r.idx <= idx THEN Throw("unmodelled", idx, view, r.log)
        ELSE readElements(r.view, r.idx, ta, struct, length, Append(acc, r.v), r.log)
  IN IF Len(acc) >= length THEN Ret(Arr(acc), idx, view, log)
     ELSE put(readType(view, idx, ta, struct, log))

\* the branch loop (lines 158-164) from alternative k on, i the offset saved;
\* test(r) is line 162 for the outcome r of line 161
readBranch(view, i, t, k, struct, log) ==
  LET test(r) ==
        IF r.st # "ok" \/ Truthy(r.v) \/ k >= Len(t) THEN r
        ELSE readBranch(r.view, i, t, k + 1, struct, r.log)
  IN test(readType(view, i, t[k], struct, log))

\* lines 168-235 for the element type ta and the resolved length
readArrayOf(view, idx, ta, length, struct, log) ==
  LET fill(n) ==
        CASE n[1] = "n" -> readElements(view, idx, ta, struct, n[2], <<>>, log)
          [] n[1] = "single" -> Ret(Arr(<<length>>), idx, view, log)
          [] OTHER -> Throw(n[1], idx, view, log)
  IN IF ta.k = "str" /\ IsTypedName(ta.s) THEN readTypedArray(view, idx, ta.s, length, log)
     ELSE IF ta.k = "arr" /\ Len(ta.e) <= 1 THEN Throw("unmodelled", idx, view, log)
     ELSE fill(ArrayLength(length))

\* the length that lines 119-167 resolve, for a length that is neither '*'
\* nor an object
ResolveLength(view, idx, length, struct) ==
  IF length.k = "str"
  THEN IF \E j \in 1..Len(length.s) : IsOp(length.s[j])
       THEN EvalLength(length.s, struct)
       ELSE GetProp(struct, length.s)
  ELSE IF length.k = "num" /\ length.n < 0
  THEN Arith(43, Num(view.byteLength - idx), length)
  ELSE length

\* the default case for t an Array (lines 116-235)
readArray(view, idx, t, struct, log) ==
  LET on(ta, length) ==
        IF length.k = "str" /\ length.s = Star
        THEN readStar(view, idx, ta, struct, <<>>, log)
        ELSE IF length.k \in {"obj", "arr", "typed", "null"}
        THEN readBranch(view, idx, t, 1, struct, log)
        ELSE readArrayOf(view, idx, ta, ResolveLength(view, idx, length, struct),
                         struct, log)
  IN on(IF Len(t) >= 1 THEN t[1] ELSE Undefined,
        IF Len(t) >= 2 THEN t[2] ELSE Undefined)

\* readType(dataView, idx, t, struct); switch(tag, ty, entered) is the
\* switch of line 41 for the tag that lines 23-40 parse, ty its case
readType(view, idx, t, struct, log) ==
  LET default(node, entered) == readStruct(view, idx, node, entered)
      switch(tag, ty, entered) ==
        CASE t.k = "str" /\ ty \in ScalarTypes -> readScalar(view, idx, tag, ty, entered)
          [] t.k = "str" /\ ty = "string" -> readString(view, idx, tag, entered)
          [] t.k = "str" /\ ty = "cstring" -> readCString(view, idx, tag, entered)
          [] t.k = "arr" /\ Len(t.e) = 1 /\ t.e[1].k = "str" /\ IsLeName(t.e[1].s) ->
               Throw("unmodelled", idx, view, entered)
          [] t.k = "arr" /\ ~(Len(t.e) = 1 /\ t.e[1].k = "str" /\ IsLeName(t.e[1].s)) ->
               readArray(view, idx, t.e, struct, entered)
          [] OTHER -> default(IF t.k = "str" THEN JStr(tag.t) ELSE t, entered)
      parsed(tag) ==
        switch(tag, IF t.k = "str" THEN CaseOf(tag.t) ELSE "",
               Append(log, [t |-> t, at |-> idx]))
  IN parsed(IF t.k = "str" THEN ParseTag(t.s) ELSE ParseTag(<<>>))

(***************************************************************************)
(* writeStruct and writeType (src/structdef.js:242-330).                   *)
(***************************************************************************)
WRet(idx, view) == [st |-> "ok", idx |-> idx, view |-> view]
WThrow(e, idx, view) == [st |-> e, idx |-> idx, view |-> view]

\* the little-endian cases of writeType's switch
WriteLeTypes == {"uint16", "int16", "uint32", "int32", "float32", "float64"}

\* the scalar case of writeType's switch that the string s selects:
\* <<type, littleEndian>>, or <<"", FALSE>>
WriteCaseOf(s) ==
  IF \E ty \in ScalarTypes : s = NameOf(ty)
  THEN <<CHOOSE ty \in ScalarTypes : s = NameOf(ty), FALSE>>
  ELSE IF \E ty \in WriteLeTypes : s = NameOf(ty) \o LeSuffix
  THEN <<CHOOSE ty \in WriteLeTypes : s = NameOf(ty) \o LeSuffix, TRUE>>
  ELSE <<"", FALSE>>

\* the error a string that writeType's switch does not know ends in, through
\* writeStruct over the characters of the string with struct = v
RECURSIVE UnknownTagError(_)
UnknownTagError(v) ==
  CASE IsNullish(v) -> "TypeError"
    [] v.k = "str" -> IF v.s # <<>> THEN "RangeError" ELSE "TypeError"
    [] v.k \in {"arr", "typed"} -> IF v.e # <<>> THEN UnknownTagError(v.e[1]) ELSE "TypeError"
    [] OTHER -> "TypeError"

\* the setUint8(idx[0]++, ...) calls of case 'cstring' for the bytes from k on
RECURSIVE writeBytes(_, _, _, _)
writeBytes(view, idx, bytes, k) ==
  IF k > Len(bytes) THEN WRet(idx, view)
  ELSE IF ~InRange(view, idx, 1) THEN WThrow("RangeError", idx + 1, view)
  ELSE writeBytes(Set(view, "uint8", idx, Num(bytes[k]), FALSE), idx + 1, bytes, k + 1)

\* the name is 'length' or an index, which strings and arrays have as
\* properties of their own
OwnName(name) ==
  name = <<108, 101, 110, 103, 116, 104>> \/ (name # <<>> /\ \A i \in 1..Len(name) : IsDigit(name[i]))

\* v[0], ..., v[v.length - 1] as the loop of lines 321-323 sees them: the
\* elements of an array, the characters of a string, nothing for a value
\* without a length
ElementsOf(v) ==
  CASE v.k \in {"arr", "typed"} -> v.e
    [] v.k = "str" -> [i \in 1..Len(v.s) |-> JStr(<<v.s[i]>>)]
    [] OTHER -> <<>>

RECURSIVE writeStruct(_, _, _, _)
RECURSIVE writeType(_, _, _, _)
RECURSIVE writeFields(_, _, _, _, _)
RECURSIVE writeElements(_, _, _, _, _)

\* the loop of writeStruct from field i on (lines 243-246)
writeFields(view, idx, fields, i, struct) ==
  LET next(r) ==
        IF r.st # "ok" THEN r ELSE writeFields(r.view, r.idx, fields, i + 1, struct)
  IN IF i > Len(fields) THEN WRet(idx, view)
     ELSE IF IsNullish(struct) THEN WThrow("TypeError", idx, view)
     ELSE IF struct.k \in {"str", "arr", "typed"} /\ OwnName(fields[i][1])
     THEN WThrow("unmodelled", idx, view)
     ELSE next(writeType(view, idx, fields[i][2], GetProp(struct, fields[i][1])))

\* writeStruct(dataView, idx, structDefinition, struct)
writeStruct(view, idx, structDefinition, struct) ==
  IF structDefinition.k = "str" /\ structDefinition.s # <<>>
  THEN WThrow(UnknownTagError(struct), idx, view)
  ELSE IF structDefinition.k = "arr" THEN WThrow("unmodelled", idx, view)
  ELSE writeFields(view, idx, FieldsOf(structDefinition), 1, struct)

\* the loop of lines 321-323 from element i on
writeElements(view, idx, ta, e, i) ==
  LET next(r) == IF r.st # "ok" THEN r ELSE writeElements(r.view, r.idx, ta, e, i + 1)
  IN IF i > Len(e) THEN WRet(idx, view)
     ELSE next(writeType(view, idx, ta, e[i]))

\* writeType(dataView, idx, t, v); scalar(ty, le) is the case of the switch
\* that stores v as ty
writeType(view, idx, t, v) ==
  LET default(node) == writeStruct(view, idx, node, v)
      scalar(ty, le) ==
        IF ~InRange(view, idx, SizeOf(ty)) THEN WThrow("RangeError", idx, view)
        ELSE IF Encode(ty, v) = <<>> THEN WThrow("unmodelled", idx, view)
        ELSE WRet(idx + SizeOf(ty), Set(view, ty, idx, v, le))
      switch(c) ==
        CASE t.k = "str" /\ c[1] # "" -> scalar(c[1], c[2])
          [] t.k = "str" /\ c[1] = "" /\ t.s = NameOf("cstring") ->
               IF IsNullish(v) THEN WThrow("TypeError", idx, view)
               ELSE IF v.k # "str" THEN WThrow("unmodelled", idx, view)
               ELSE writeBytes(view, idx, v.s \o <<0>>, 1)
          [] t.k = "arr" ->
               IF IsNullish(v) THEN WThrow("TypeError", idx, view)
               ELSE IF v.k = "obj" /\ GetProp(v, <<108, 101, 110, 103, 116, 104>>) # Undefined
               THEN WThrow("unmodelled", idx, view)
               ELSE writeElements(view, idx, IF t.e = <<>> THEN Undefined ELSE t.e[1],
                                  ElementsOf(v), 1)
          [] OTHER -> default(t)
  IN switch(IF t.k = "str" THEN WriteCaseOf(t.s) ELSE <<"", FALSE>>)

(***************************************************************************)
(* Inputs.                                                                 *)
(***************************************************************************)
\* all sequences of length at most n over the byte values in bs
RECURSIVE SeqsUpTo(_, _)
SeqsUpTo(n, bs) ==
  IF n = 0 THEN {<<>>}
  ELSE LET shorter == SeqsUpTo(n - 1, bs)
       IN shorter \cup {Append(b, x) : b \in {c \in shorter : Len(c) = n - 1}, x \in bs}

\* a field of a struct definition
F(name, node) == <<Chars(name), node>>

\* a tag without reference, and a tag base=ref or base!=ref
T(ty) == JStr(NameOf(ty))
TEq(ty, ref) == JStr(NameOf(ty) \o <<61>> \o ref)
TNeq(ty, ref) == JStr(NameOf(ty) \o <<33, 61>> \o ref)

\* the test of src/test.js: its buffer and its definition
TestBuffer ==
  << 137, 80, 78, 71, 0, 136, 136, 255, 137, 80, 78, 71, 0, 136, 136, 255,
     72, 101, 108, 108, 111, 44, 32, 87, 111, 114, 108, 100, 33, 0, 0, 2,
     0, 1, 2, 3, 1, 2, 3, 4, 72, 101, 108, 108, 111, 44, 32, 87, 111, 114,
     108, 100, 33, 0 >>

Tuint32 == T("uint32")
Tuint32le == JStr(NameOf("uint32") \o LeSuffix)
Tuint16 == T("uint16")
Tuint16le == JStr(NameOf("uint16") \o LeSuffix)
Tuint8 == T("uint8")
Tfloat32 == T("float32")
Tcstring == T("cstring")

TestDef ==
  Obj(<< F(<<"t", "a", "g">>, Tuint32),
         F(<<"c", "o", "d", "e">>, Tuint32le),
         F(<<"e", "m", "b", "e", "d">>,
           Obj(<< F(<<"t", "a", "g">>, Tuint32),
                  F(<<"c", "o", "d", "e">>, Tuint32le),
                  F(<<"g", "r", "e", "e", "t">>, Tcstring) >>)),
         F(<<"l", "e", "n", "g", "t", "h">>, Tuint16),
         F(<<"d", "a", "t", "a">>, Arr(<<Tfloat32, S(<<"l", "e", "n", "g", "t", "h">>)>>)),
         F(<<"g", "r", "e", "e", "t">>, Tcstring) >>)

\* field names
fa == <<"a">>
fb == <<"b">>
fc == <<"c">>
fd == <<"d">>
fn == <<"n">>
fm == <<"m">>
fdata == <<"d", "a", "t", "a">>

\* struct definitions without arrays
PlainStructs ==
  { Obj(<<>>),
    Obj(<<F(fa, Tuint8), F(fb, Tuint16le)>>),
    Obj(<<F(fa, Tcstring), F(fb, Tuint16)>>),
    Obj(<<F(fa, TEq("uint8", <<49>>)), F(fb, Tuint8)>>),
    Obj(<<F(fa, Tuint8), F(fb, TNeq("uint8", <<49>>)), F(fc, Tcstring)>>),
    Obj(<<F(fa, Obj(<<F(fb, TEq("uint8", <<49>>)), F(fc, Tuint8)>>)), F(fd, Tuint8)>>),
    Obj(<<F(fa, Obj(<<F(fb, Tuint8), F(fc, Obj(<<F(fd, TNeq("uint8", <<48>>))>>))>>)),
          F(fd, Tuint8)>>) }

\* the example of an arithmetic length: {n:'uint8', data:['uint8','n-1']}
NMinus1Def == Obj(<<F(fn, Tuint8), F(fdata, Arr(<<Tuint8, S(<<"n", "-", "1">>)>>))>>)
NMinus1Buffer == <<5, 10, 20, 30, 40>>

\* a length expression from its terms: the first term, then <<operator,
\* term>> pairs; a term is a field name or a decimal literal
ExprStr(e) ==
  LET RECURSIVE Rest(_)
      Rest(i) == IF i > Len(e.rest) THEN <<>>
                 ELSE <<e.rest[i][1]>> \o e.rest[i][2] \o Rest(i + 1)
  IN e.first \o Rest(1)

\* the length expressions of the definitions: n-1, n+m*2, n-1*2, 2*n, n/2*2,
\* n+1, m-n, 2+m/2
Exprs ==
  { [first |-> <<110>>, rest |-> <<(<<45, <<49>>>>)>>],
    [first |-> <<110>>, rest |-> <<(<<43, <<109>>>>), (<<42, <<50>>>>)>>],
    [first |-> <<110>>, rest |-> <<(<<45, <<49>>>>), (<<42, <<50>>>>)>>],
    [first |-> <<50>>, rest |-> <<(<<42, <<110>>>>)>>],
    [first |-> <<110>>, rest |-> <<(<<47, <<50>>>>), (<<42, <<50>>>>)>>],
    [first |-> <<110>>, rest |-> <<(<<43, <<49>>>>)>>],
    [first |-> <<109>>, rest |-> <<(<<45, <<110>>>>)>>],
    [first |-> <<50>>, rest |-> <<(<<43, <<109>>>>), (<<47, <<50>>>>)>>] }

\* element definitions of the arrays with a computed length: one that takes
\* the typed-array path and two that take the element loop
ExprElems == {Tuint8, Tcstring, Obj(<<F(fa, Tuint8)>>)}

\* {n:'uint8', m:'uint8', data:[elem, expr]}
ExprDef(elem, e) ==
  Obj(<<F(fn, Tuint8), F(fm, Tuint8), F(fdata, Arr(<<elem, JStr(ExprStr(e))>>))>>)

ExprStructs == {ExprDef(elem, e) : elem \in ExprElems, e \in Exprs} \cup {NMinus1Def}

\* structs with arrays of a literal, named or negative length, and with
\* typed arrays at offsets that are views of the buffer
ArrayStructs ==
  { Obj(<<F(fn, Tuint8), F(fdata, Arr(<<Tuint8, S(fn)>>))>>),
    Obj(<<F(fn, Tuint16), F(fdata, Arr(<<Tuint16, Num(1)>>))>>),
    Obj(<<F(fdata, Arr(<<Tfloat32, Num(1)>>))>>),
    Obj(<<F(fn, Tuint8), F(fdata, Arr(<<Tuint16le, S(fn)>>)), F(fa, Tuint8)>>),
    Obj(<<F(fdata, Arr(<<Tuint8, Num(-1)>>)), F(fa, Tuint8)>>),
    Obj(<<F(fdata, Arr(<<Obj(<<F(fa, TEq("uint8", <<49>>))>>), Num(2)>>))>>),
    Obj(<<F(fdata, Arr(<<Tuint8, JStr(Star)>>))>>) }

\* branches, alone and as a field; a branch is an array whose second element
\* is a definition
BranchDefs ==
  { Arr(<<Obj(<<F(fa, TEq("uint8", <<49>>))>>), Obj(<<F(fa, TEq("uint8", <<50>>))>>)>>),
    Arr(<<Tuint8, Obj(<<F(fa, Tuint16)>>)>>),
    Arr(<<Tcstring, Obj(<<F(fa, Tuint8)>>), Tuint8>>),
    Arr(<<Obj(<<F(fa, Tuint8), F(fb, TEq("uint8", <<49>>))>>), Obj(<<F(fa, Tuint16)>>), Tuint8>>),
    Obj(<<F(fa, Arr(<<Tuint8, Obj(<<F(fb, Tuint16)>>)>>)), F(fc, Tuint8)>>),
    Obj(<<F(fa, Arr(<<Obj(<<F(fb, TEq("uint8", <<49>>))>>),
                      Obj(<<F(fb, TEq("uint8", <<50>>)), F(fc, Tuint8)>>)>>)),
          F(fd, Tuint8)>>) }

\* nodes of the other kinds, given to readType directly
OtherNodes ==
  { Tuint8, Tuint16, Tcstring, JStr(NameOf("string") \o <<58, 48>>),
    JStr(NameOf("string") \o <<58, 50>>), TEq("uint16", <<49>>),
    Arr(<<Tuint8, Num(0)>>), Arr(<<Tuint8, Num(2)>>), Arr(<<Tuint16, Num(1)>>),
    Arr(<<Tcstring, Num(2)>>), Arr(<<Tuint8, JStr(Star)>>),
    Arr(<<Obj(<<F(fa, TNeq("uint8", <<48>>))>>), JStr(Star)>>) }

\* arrays whose length names the field n, which no field before the array
\* decodes: as a bare name and as a term of n+1, for elements of the
\* typed-array path and of the element loop
UnknownLengthDefs ==
  { Obj(<<F(fdata, Arr(<<Tuint8, S(fn)>>))>>),
    Obj(<<F(fdata, Arr(<<Tuint8, S(fn)>>)), F(fn, Tuint8)>>),
    Arr(<<Tuint16, S(fn)>>),
    Arr(<<Tcstring, S(fn)>>),
    Arr(<<Tuint16, S(<<"n", "+", "1">>)>>),
    Arr(<<Tcstring, S(<<"n", "+", "1">>)>>) }

\* '*' arrays: ['uint8', '*'], whose elements never fail to match;
\* [{a:'uint8!=0'}, '*'], whose element does not match a zero byte;
\* [{a:'uint8', b:'uint8!=0'}, '*'], whose element fails at its second
\* field; [{}, '*'] and [['uint8', 0], '*'], whose elements decode to an
\* object without consuming a byte
StarOfBytes == Arr(<<Tuint8, JStr(Star)>>)
StarOfRecords == Arr(<<Obj(<<F(fa, TNeq("uint8", <<48>>))>>), JStr(Star)>>)
StarOfPairs ==
  Arr(<<Obj(<<F(fa, Tuint8), F(fb, TNeq("uint8", <<48>>))>>), JStr(Star)>>)
StarOfEmptyStructs == Arr(<<Obj(<<>>), JStr(Star)>>)
StarOfEmptyArrays == Arr(<<Arr(<<Tuint8, Num(0)>>), JStr(Star)>>)
StarDefs ==
  {StarOfBytes, StarOfRecords, StarOfPairs, StarOfEmptyStructs, StarOfEmptyArrays}

\* [{a:'uint8=1'}, {a:'uint8', b:'uint8=1'}]: a branch whose last
\* alternative fails at its second field
PartialBranch ==
  Arr(<<Obj(<<F(fa, TEq("uint8", <<49>>))>>),
        Obj(<<F(fa, Tuint8), F(fb, TEq("uint8", <<49>>))>>)>>)

\* structs with an array of composite elements that can fail to match:
\* {data: [{a:'uint8=1'}, 2]} and {n: 'uint8', data: ['uint8=1', 'n']}
CompositeArrayDefs ==
  { Obj(<<F(fdata, Arr(<<Obj(<<F(fa, TEq("uint8", <<49>>))>>), Num(2)>>))>>),
    Obj(<<F(fn, Tuint8), F(fdata, Arr(<<TEq("uint8", <<49>>), S(fn)>>))>>) }

Schemas ==
  {TestDef} \cup PlainStructs \cup ExprStructs \cup ArrayStructs \cup BranchDefs
    \cup OtherNodes \cup UnknownLengthDefs \cup StarDefs \cup {PartialBranch}
    \cup CompositeArrayDefs

\* byte values of the buffers of these definitions: they are counts, and
\* the characters '1' and '2' of the references are compared as numbers
Bytes == {0, 1, 2}

\* longer buffers: for a typed array that is a view of the buffer, for
\* computed lengths of two and three elements
LongBuffers ==
  { <<0, 0, 0, 1>>, <<0, 1, 0, 2>>, <<1, 0, 1, 2>>, <<1, 1, 0, 1, 2, 1>>, <<2, 1, 1, 2, 0, 1>>,
    <<0, 2, 1, 0, 2, 0>> }

Buffers == SeqsUpTo(MaxLen, Bytes) \cup LongBuffers \cup {TestBuffer, NMinus1Buffer}

(***************************************************************************)
(* One-tag definitions: base[le][:paddedTo][!][=ref[!]], from their parts. *)
(***************************************************************************)
\* largest paddedTo of the tags
MaxPad == 2

\* the decimal digits of n >= 0
RECURSIVE DecStr(_)
DecStr(n) == IF n < 10 THEN <<48 + n>> ELSE DecStr(n \div 10) \o <<48 + (n % 10)>>

\* the tag with these parts: pad -1 for no ':paddedTo'; bang "before" for
\* '!' before '=', "after" for '!' after the reference, "none" for a
\* reference without '!', "noref" for no reference
MkTag(c) ==
  JStr(NameOf(c.ty)
       \o (IF c.le THEN LeSuffix ELSE <<>>)
       \o (IF c.pad >= 0 THEN <<58>> \o DecStr(c.pad) ELSE <<>>)
       \o (IF c.bang = "before" THEN <<33>> ELSE <<>>)
       \o (IF c.bang = "noref" THEN <<>> ELSE <<61>> \o c.ref)
       \o (IF c.bang = "after" THEN <<33>> ELSE <<>>))

\* reference values of the tags of a type: 1, 2 (also 2.0), '@' and '@@'
RefsOf(ty) ==
  IF ty \in {"float32", "float64"} THEN {<<50>>}
  ELSE IF ty \in ScalarTypes THEN {<<49>>}
  ELSE {<<64>>, <<64, 64>>}

\* the paddedTo of the tags: none (-1), 0..MaxPad, and the 8 of 'uint16:8'
Pads == (-1..MaxPad) \cup {8}

TagParts ==
  { c \in [ty : ScalarTypes \cup {"string", "cstring"}, le : BOOLEAN,
           pad : Pads, bang : {"noref", "none", "before", "after"},
           ref : {<<>>, <<49>>, <<50>>, <<64>>, <<64, 64>>}] :
      /\ c.le => c.ty \in ScalarTypes
      /\ IF c.bang = "noref" THEN c.ref = <<>> ELSE c.ref \in RefsOf(c.ty) }

\* the parts of a definition that is no single tag
NoParts == [ty |-> "none"]

\* byte values of the buffers of the tags: zero, one, the character '@'
\* (also the top byte of the floats 2.0) and a byte with the sign bit set
TagBytes == {0, 1, 64, 255}

\* longest of the short buffers of the tags
MaxTagLen == 2

\* buffers of the tags: the short ones, 9-byte ones for the wide types (the
\* floats 2.0, the integers 1 in both byte orders) and strings of '@'
TagBuffers ==
  SeqsUpTo(MaxTagLen, TagBytes)
    \cup {<<x, y, 0, 0, 0, 0, 0, 0, 0>> : x, y \in TagBytes}
    \cup {<<0, 0, 0, 1, 0>>, <<1, 0, 0, 0, 1>>, <<64, 64, 64, 64>>, <<64, 64, 0, 64>>,
          <<64, 0>>, <<0, 64, 64, 0>>}

(***************************************************************************)
(* The state machine: a definition, a DataView and a start offset are      *)
(* chosen; readStruct or readType is called; the value read is written     *)
(* back into a fresh buffer of the same size (src/test.js:31-34).          *)
(***************************************************************************)
None == [st |-> "none"]

\* no DataStream is made in the runs of readStruct and writeStruct
NoStream ==
  /\ stream = None
  /\ writes = <<>>
  /\ call = None

\* no typed array is flipped on its own and no ABStruct class is made
NoAux ==
  /\ array = None
  /\ abv = None

\* the buffer of src/test.js is read with the definition of src/test.js
Init ==
  /\ def \in Schemas
  /\ parts = NoParts
  /\ \E b \in Buffers : dv = DataView(b, 0) /\ (b = TestBuffer => def = TestDef)
  /\ start \in 0..MaxStart
  /\ littleEndian \in BOOLEAN
  /\ pc = "init"
  /\ res = None
  /\ wres = None
  /\ NoStream
  /\ NoAux

\* the runs on one-tag definitions; the scalar, string and cstring cases do
\* not read ArrayBuffer.littleEndian
InitTag ==
  /\ parts \in TagParts
  /\ def = MkTag(parts)
  /\ \E b \in TagBuffers : dv = DataView(b, 0)
  /\ start \in 0..MaxStart
  /\ littleEndian = TRUE
  /\ pc = "init"
  /\ res = None
  /\ wres = None
  /\ NoStream
  /\ NoAux

\* var obj = readStruct(dv, [start], def)
CallReadStruct ==
  /\ pc = "init"
  /\ def.k = "obj"
  /\ res' = readStruct(dv, start, def, <<>>)
  /\ pc' = "readStruct"
  /\ UNCHANGED <<def, parts, dv, start, littleEndian, wres>>
  /\ UNCHANGED streamVars
  /\ UNCHANGED auxVars

\* var v = readType(dv, [start], def, {})
CallReadType ==
  /\ pc = "init"
  /\ res' = readType(dv, start, def, Obj(<<>>), <<>>)
  /\ pc' = "readType"
  /\ UNCHANGED <<def, parts, dv, start, littleEndian, wres>>
  /\ UNCHANGED streamVars
  /\ UNCHANGED auxVars

\* a DataView over a fresh buffer, new Uint8Array(u.length)
Fresh == DataView([i \in 1..Len(dv.buffer) |-> 0], 0)

\* writeStruct(dv2, [start], def, obj)
CallWriteStruct ==
  /\ pc = "readStruct"
  /\ res.st = "ok"
  /\ wres' = writeStruct(Fresh, start, def, res.v)
  /\ pc' = "writeStruct"
  /\ UNCHANGED <<def, parts, dv, start, littleEndian, res>>
  /\ UNCHANGED streamVars
  /\ UNCHANGED auxVars

\* writeType(dv2, [start], def, v)
CallWriteType ==
  /\ pc = "readType"
  /\ res.st = "ok"
  /\ wres' = writeType(Fresh, start, def, res.v)
  /\ pc' = "writeType"
  /\ UNCHANGED <<def, parts, dv, start, littleEndian, res>>
  /\ UNCHANGED streamVars
  /\ UNCHANGED auxVars

Next == CallReadStruct \/ CallReadType \/ CallWriteStruct \/ CallWriteType

Spec == Init /\ [][Next]_vars

NextTag == CallReadType \/ CallWriteType

SpecTag == InitTag /\ [][NextTag]_vars

\* every run stays within what the model evaluates exactly
AllModelled == res.st # "unmodelled" /\ wres.st # "unmodelled"

(***************************************************************************)
(* DataStream (src/DataStream.js:9-441).                                   *)
(***************************************************************************)
\* most bytes of the ArrayBuffer a stream is constructed over
MaxCapacity == 2
\* greatest byteOffset given to the constructor
MaxByteOffset == 1
\* the writes of the runs end at or before this offset of the buffer
MaxStreamSize == 4
\* greatest length given to mapUint16Array and mapUint32Array
MaxMapLength == 2
\* the arrays mapped in the runs end at or before this offset of the buffer
MaxMapEnd == 5
\* greatest position given to seek
MaxSeek == 4

\* new DataStream(arrayBuffer, byteOffset, endianness) over an ArrayBuffer;
\* _dataView is DataView(_buffer, _byteOffset) after every assignment
DataStream(arrayBuffer, byteOffset, endianness) ==
  [_buffer |-> arrayBuffer, _byteOffset |-> byteOffset,
   _byteLength |-> Len(arrayBuffer), position |-> 0, _dynamicSize |-> TRUE,
   endianness |-> endianness]

\* the getter byteLength
byteLength(s) == s._byteLength - s._byteOffset

\* the DataView the reads and writes of the stream go through
dataView(s) == DataView(s._buffer, s._byteOffset)

\* this.buffer = v
SetBuffer(s, v) == [s EXCEPT !._buffer = v, !._byteLength = Len(v)]

\* the doubling loop replaced by an exact fit
ExactFit(blen, req) == req

\* blen after while (req > blen) blen *= 2
RECURSIVE Doubled(_, _)
Doubled(blen, req) == IF req > blen THEN Doubled(blen * 2, req) ELSE blen

\* the new buffer without dst.set(src)
ZeroFilled(blen, src) == [i \in 1..blen |-> 0]

\* the new ArrayBuffer(blen) after dst.set(src)
CopyInto(blen, src) == [i \in 1..blen |-> IF i <= Len(src) THEN src[i] ELSE 0]

\* _realloc without the test of dynamicSize
_reallocAlways(s, extra) ==
  LET req == s._byteOffset + s.position + extra
  IN IF req <= Len(s._buffer)
     THEN [s EXCEPT !._byteLength = Max(@, req)]
     ELSE [s EXCEPT !._buffer = CopyInto(req, s._buffer), !._byteLength = req]

\* the stream after this._realloc(extra)
_realloc(s, extra) ==
  LET grown(req, blen) ==
        [SetBuffer(s, CopyInto(blen, s._buffer)) EXCEPT !._byteLength = req]
      sized(req, blen) ==
        IF req <= blen
        THEN (IF req > s._byteLength THEN [s EXCEPT !._byteLength = req] ELSE s)
        ELSE grown(req, Doubled(IF blen < 1 THEN 1 ELSE blen, req))
  IN IF ~s._dynamicSize THEN s
     ELSE sized(s._byteOffset + s.position + extra, Len(s._buffer))

\* _trimAlloc keeping the last _byteLength bytes instead of the first
_trimAllocTail(s) ==
  IF s._byteLength = Len(s._buffer) THEN s
  ELSE SetBuffer(s, SubSeq(s._buffer, Len(s._buffer) - s._byteLength + 1, Len(s._buffer)))

\* the stream after this._trimAlloc()
_trimAlloc(s) ==
  IF s._byteLength = Len(s._buffer) THEN s
  ELSE SetBuffer(s, SubSeq(s._buffer, 1, s._byteLength))

\* the outcome of a call on a stream: the value returned or the error
\* thrown, and the stream after it
SRet(v, s) == [st |-> "ok", v |-> v, s |-> s]
SThrow(e, s) == [st |-> e, v |-> Undefined, s |-> s]

\* stream.isEof()
isEof(s) == s.position >= s._byteLength

\* stream.dynamicSize = v
SetDynamicSize(s, v) ==
  SRet(Undefined, [(IF ~v THEN _trimAlloc(s) ELSE s) EXCEPT !._dynamicSize = v])

\* stream.seek(pos), pos a natural number
seek(s, pos) ==
  SRet(Undefined,
       [s EXCEPT !.position = Max(0, Min(Len(s._buffer) - s._byteOffset, pos))])

\* stream.readUint8(), readUint16(): ty names the type
readXxx(s, ty) ==
  IF ~InRange(dataView(s), s.position, SizeOf(ty)) THEN SThrow("RangeError", s)
  ELSE SRet(Get(dataView(s), ty, s.position, s.endianness),
            [s EXCEPT !.position = @ + SizeOf(ty)])

\* stream.writeUint8(v), writeUint16(v)
writeXxx(s, ty, v) ==
  LET set(r) ==
        IF ~InRange(dataView(r), r.position, SizeOf(ty)) THEN SThrow("RangeError", r)
        ELSE SRet(Undefined,
                  [r EXCEPT !._buffer = Set(dataView(r), ty, r.position, v, r.endianness).buffer,
                            !.position = @ + SizeOf(ty)])
  IN set(_realloc(s, SizeOf(ty)))

\* stream.mapUint16Array(length), mapUint32Array(length): the typed array
\* is a view of this.buffer at byteOffset + position, swizzled in place
mapXxxArray(s, ty, length) ==
  LET swizzled(r, at, size, native) ==
        SRet(Typed(ty, Elements(ty, native), TRUE, at),
             [r EXCEPT !._buffer =
                [j \in 1..Len(r._buffer) |->
                   IF j > at /\ j <= at + length * size THEN native[j - at]
                   ELSE r._buffer[j]]])
      view(r, at, size) ==
        IF at % size # 0 \/ at + length * size > Len(r._buffer)
        THEN SThrow("RangeError", r)
        ELSE swizzled(r, at, size,
                      arrayToNative(SubSeq(r._buffer, at + 1, at + length * size),
                                    size, r.endianness))
      mapped(size) ==
        view(_trimAlloc(_realloc(s, length * size)), s._byteOffset + s.position, size)
  IN mapped(SizeOf(ty))

\* the values given to writeUint8 and to writeUint16
WriteValues == {1, 2}
WideValues == {258}

\* the stream after new DataStream(n) and new DataStream(new ArrayBuffer(n),
\* byteOffset, endianness)
InitStream ==
  /\ def = Null
  /\ parts = NoParts
  /\ dv = DataView(<<>>, 0)
  /\ start = 0
  /\ littleEndian \in BOOLEAN
  /\ pc = "stream"
  /\ res = None
  /\ wres = None
  /\ \E n \in 0..MaxCapacity, byteOffset \in 0..MaxByteOffset, endianness \in BOOLEAN :
       /\ byteOffset <= n
       /\ stream = DataStream([i \in 1..n |-> 0], byteOffset, endianness)
  /\ writes = [only |-> Len(stream._buffer) = 0, vals |-> <<>>]
  /\ call = None
  /\ NoAux

\* the call op(arg) with the outcome r; the other variables belong to the
\* runs of readStruct
Called(op, arg, r) ==
  /\ stream' = r.s
  /\ call' = [op |-> op, arg |-> arg, st |-> r.st, v |-> r.v, before |-> stream]
  /\ writes' = IF op = "writeUint8" /\ writes.only
               THEN [writes EXCEPT !.vals = Append(@, arg)]
               ELSE [only |-> FALSE, vals |-> <<>>]
  /\ UNCHANGED <<def, parts, dv, start, littleEndian, pc, res, wres, array, abv>>

CallWriteUint8 ==
  /\ pc = "stream"
  /\ stream._byteOffset + stream.position + 1 <= MaxStreamSize
  /\ \E v \in WriteValues : Called("writeUint8", v, writeXxx(stream, "uint8", Num(v)))

CallWriteUint16 ==
  /\ pc = "stream"
  /\ stream._byteOffset + stream.position + 2 <= MaxStreamSize
  /\ \E v \in WideValues : Called("writeUint16", v, writeXxx(stream, "uint16", Num(v)))

CallReadUint8 ==
  /\ pc = "stream"
  /\ Called("readUint8", 0, readXxx(stream, "uint8"))

CallReadUint16 ==
  /\ pc = "stream"
  /\ Called("readUint16", 0, readXxx(stream, "uint16"))

CallSeek ==
  /\ pc = "stream"
  /\ \E pos \in 0..MaxSeek : Called("seek", pos, seek(stream, pos))

CallSetDynamicSize ==
  /\ pc = "stream"
  /\ \E v \in BOOLEAN : Called("dynamicSize", v, SetDynamicSize(stream, v))

CallMapArray ==
  /\ pc = "stream"
  /\ \E ty \in {"uint16", "uint32"}, length \in 1..MaxMapLength :
       /\ stream._byteOffset + stream.position + length * SizeOf(ty) <= MaxMapEnd
       /\ Called("map", <<ty, length>>, mapXxxArray(stream, ty, length))

NextStream ==
  \/ CallWriteUint8
  \/ CallWriteUint16
  \/ CallReadUint8
  \/ CallReadUint16
  \/ CallSeek
  \/ CallSetDynamicSize
  \/ CallMapArray

SpecStream == InitStream /\ [][NextStream]_vars

(***************************************************************************)
(* flipArrayEndianness on a typed array of its own                         *)
(* (src/structdef.js:350-360, src/DataStream.js:470-480).                  *)
(***************************************************************************)
\* longest of the short buffers under the typed arrays
MaxFlipLen == 4
\* most calls of flipArrayEndianness on one array
MaxFlips == 3

\* new XxxArray(buffer, byteOffset, length)
TypedArray(buffer, byteOffset, length, size) ==
  [buffer |-> buffer, byteOffset |-> byteOffset, length |-> length,
   BYTES_PER_ELEMENT |-> size]

\* the inner loop without tmp: u8[k] = u8[j]; u8[j] = u8[k]
RECURSIVE SwapLoopNoTmp(_, _, _, _)
SwapLoopNoTmp(buffer, base, j, k) ==
  IF j > k
  THEN SwapLoopNoTmp([buffer EXCEPT ![base + k + 1] = buffer[base + j + 1]],
                     base, j - 1, k + 1)
  ELSE buffer

\* for (j = .., k = i; j > k; j--, k++) swap u8[k] and u8[j]; u8 starts at
\* base in the buffer
RECURSIVE SwapLoop(_, _, _, _)
SwapLoop(buffer, base, j, k) ==
  IF j > k
  THEN SwapLoop([buffer EXCEPT ![base + k + 1] = buffer[base + j + 1],
                               ![base + j + 1] = buffer[base + k + 1]],
                base, j - 1, k + 1)
  ELSE buffer

\* for (i = ..; i < array.byteLength; i += array.BYTES_PER_ELEMENT)
RECURSIVE FlipLoop(_, _, _, _, _)
FlipLoop(buffer, base, bytes, size, i) ==
  IF i < bytes
  THEN FlipLoop(SwapLoop(buffer, base, i + size - 1, i), base, bytes, size, i + size)
  ELSE buffer

\* the array after flipArrayEndianness(array): the bytes of its buffer are
\* swapped in place
FlipArray(a) ==
  [a EXCEPT !.buffer = FlipLoop(a.buffer, a.byteOffset, a.length * a.BYTES_PER_ELEMENT,
                                a.BYTES_PER_ELEMENT, 0)]

\* the buffers under the arrays: the short ones and one of nine bytes for
\* the elements of eight bytes
FlipBuffers == SeqsUpTo(MaxFlipLen, Bytes) \cup {<<1, 2, 3, 4, 5, 6, 7, 8, 9>>}

\* the typed arrays over a buffer: the constructor wants an offset that is
\* a multiple of the element size and a range inside the buffer
TypedArraysOver(buffer) ==
  { TypedArray(buffer, byteOffset, length, size) :
      byteOffset \in 0..Len(buffer), length \in 0..Len(buffer), size \in {1, 2, 4, 8} }

InitFlip ==
  /\ def = Null
  /\ parts = NoParts
  /\ dv = DataView(<<>>, 0)
  /\ start = 0
  /\ littleEndian = TRUE
  /\ pc = "flip"
  /\ res = None
  /\ wres = None
  /\ NoStream
  /\ abv = None
  /\ \E buffer \in FlipBuffers : \E a \in TypedArraysOver(buffer) :
       /\ a.byteOffset % a.BYTES_PER_ELEMENT = 0
       /\ a.byteOffset + a.length * a.BYTES_PER_ELEMENT <= Len(buffer)
       /\ array = [a |-> a, original |-> buffer, flips |-> 0]

\* flipArrayEndianness(array)
CallFlipArrayEndianness ==
  /\ pc = "flip"
  /\ array.flips < MaxFlips
  /\ array' = [array EXCEPT !.a = FlipArray(@), !.flips = @ + 1]
  /\ UNCHANGED <<def, parts, dv, start, littleEndian, pc, res, wres, abv>>
  /\ UNCHANGED streamVars

NextFlip == CallFlipArrayEndianness

SpecFlip == InitFlip /\ [][NextFlip]_vars

(***************************************************************************)
(* Round trip (src/test.js:31-43).                                         *)
(***************************************************************************)
\* the definition has no branch: no array whose second element is a
\* definition
RECURSIVE NoBranch(_)
NoBranch(d) ==
  CASE d.k = "obj" -> \A i \in 1..Len(d.f) : NoBranch(d.f[i][2])
    [] d.k = "arr" -> Len(d.e) >= 2 =>
                        (d.e[2].k \notin {"obj", "arr", "null"} /\ NoBranch(d.e[1]))
    [] OTHER -> TRUE

\* the first n bytes of two buffers are the same
SamePrefix(a, b, n) == \A i \in 1..Min(n, Min(Len(a), Len(b))) : a[i] = b[i]

\* C1: for a definition without branches, when readStruct at offset 0
\* succeeds, writeStruct of the decoded value into a fresh buffer of the same
\* size completes and reproduces every byte the decode consumed, as the
\* original buffer holds it after the decode.
C1_RoundTrip ==
  (pc = "writeStruct" /\ start = 0 /\ NoBranch(def) /\ ~IsNullish(res.v))
    => /\ wres.st = "ok"
       /\ SamePrefix(wres.view.buffer, res.view.buffer, res.idx)

(***************************************************************************)
(* One-tag reads, stated from the parts of the tag and the bytes of the    *)
(* buffer.                                                                 *)
(***************************************************************************)
\* readType on a one-tag definition has returned or thrown
TagRead == pc # "init" /\ parts.ty # "none"

\* the number a decimal numeral stands for
RECURSIVE DecVal(_)
DecVal(s) ==
  IF s = <<>> THEN 0 ELSE DecVal(SubSeq(s, 1, Len(s) - 1)) * 10 + (s[Len(s)] - 48)

\* bytes from the start offset to the end of the buffer
Remaining == Len(dv.buffer) - start

\* the lengths at which a cstring at the start offset can end: at a zero
\* byte, or at paddedTo when there is one
CStrEnds ==
  { i \in 0..Remaining : \/ parts.pad > 0 /\ i = parts.pad
                         \/ i < Remaining /\ dv.buffer[start + i + 1] = 0 }

\* the length of the cstring at the start offset
CStrLen == CHOOSE i \in CStrEnds : \A j \in CStrEnds : i <= j

\* the field of the tag lies within the buffer
FieldInRange ==
  CASE parts.ty \in ScalarTypes -> SizeOf(parts.ty) <= Remaining
    [] parts.ty = "string" -> Max(parts.pad, 0) <= Remaining
    [] parts.ty = "cstring" -> CStrEnds # {}

\* the value the bytes at the start offset hold for the tag
FieldValue ==
  CASE parts.ty \in ScalarTypes ->
         LET size == SizeOf(parts.ty)
         IN Decode(parts.ty, [j \in 1..size |->
                                dv.buffer[start + (IF parts.le THEN size + 1 - j ELSE j)]])
    [] parts.ty = "string" -> JStr(SubSeq(dv.buffer, start + 1, start + Max(parts.pad, 0)))
    [] parts.ty = "cstring" -> JStr(SubSeq(dv.buffer, start + 1, start + CStrLen))

\* the value is the reference of the tag
RefMatches ==
  IF parts.ty \in ScalarTypes THEN FieldValue = Num(DecVal(parts.ref))
  ELSE FieldValue = JStr(parts.ref)

\* the tag has a reference, written base=ref or base!=ref
Constrained == parts.bang \in {"none", "before"}

\* the value satisfies the constraint of such a tag
Satisfied == IF parts.bang = "before" THEN ~RefMatches ELSE RefMatches

\* C2: a scalar, string or cstring field with a reference constraint whose
\* value does not satisfy the constraint makes readType return null without
\* an error; a value that satisfies it is returned.
C2_ConstraintNoMatch ==
  (TagRead /\ Constrained /\ FieldInRange)
    => /\ res.st = "ok"
       /\ res.v = IF Satisfied THEN FieldValue ELSE Null

\* a cstring whose value differs from the reference it must equal: null came
\* back, and no error
C2_Witness ==
  /\ TagRead /\ parts.ty = "cstring" /\ parts.bang = "none" /\ FieldInRange
  /\ ~RefMatches /\ res.st = "ok" /\ res.v = Null

\* the width the field of the tag takes: max(natural size, paddedTo) for a
\* scalar, paddedTo for a string and a padded cstring, length + 1 for an
\* unpadded cstring
FieldWidth ==
  CASE parts.ty \in ScalarTypes -> Max(SizeOf(parts.ty), parts.pad)
    [] parts.ty = "string" -> Max(parts.pad, 0)
    [] parts.ty = "cstring" -> IF parts.pad > 0 THEN parts.pad ELSE CStrLen + 1

\* C6 as stated: when a constrained field fails its constraint, the offset
\* has been advanced by the width of the field when null is returned.
C6_AdvancedOnNoMatch ==
  (TagRead /\ Constrained /\ FieldInRange /\ ~Satisfied)
    => res.idx = start + FieldWidth

\* C6, amended: when a constrained field fails its constraint, null is
\* returned with the offset where it was before the read.
C6_OffsetKeptOnNoMatch ==
  (TagRead /\ Constrained /\ FieldInRange /\ ~Satisfied)
    => res.st = "ok" /\ res.v = Null /\ res.idx = start

\* a field of positive width failed its constraint and the offset stayed
C6_Witness ==
  /\ TagRead /\ Constrained /\ FieldInRange /\ ~Satisfied
  /\ FieldWidth > 0 /\ res.v = Null /\ res.idx = start

\* the read of the tag succeeded
TagDecoded == TagRead /\ res.st = "ok" /\ res.v # Null

\* C7 as stated: a successful decode advances the offset by max(natural
\* size, paddedTo) for a scalar, by paddedTo for 'string:paddedTo' and for
\* 'cstring:paddedTo', by string length + 1 for an unpadded cstring.
C7_Width ==
  (TagDecoded /\ ~(parts.ty = "string" /\ parts.pad < 0))
    => res.idx - start =
         CASE parts.ty \in ScalarTypes -> Max(SizeOf(parts.ty), parts.pad)
           [] parts.ty = "string" -> parts.pad
           [] parts.ty = "cstring" ->
                IF parts.pad >= 0 THEN parts.pad ELSE Len(res.v.s) + 1

\* C7, amended: as C7, with paddedTo >= 1 for 'cstring:paddedTo'; 'cstring:0'
\* advances as the unpadded cstring does, by string length + 1.
C7_WidthPadded ==
  (TagDecoded /\ ~(parts.ty = "string" /\ parts.pad < 0))
    => res.idx - start =
         CASE parts.ty \in ScalarTypes -> Max(SizeOf(parts.ty), parts.pad)
           [] parts.ty = "string" -> parts.pad
           [] parts.ty = "cstring" ->
                IF parts.pad >= 1 THEN parts.pad ELSE Len(res.v.s) + 1

\* 'uint16:8' was decoded and the offset is 8 further
C7_Witness ==
  /\ TagDecoded /\ parts.ty = "uint16" /\ parts.pad = 8 /\ parts.bang = "noref"
  /\ res.idx = start + 8

\* C9 as stated: a scalar tag base=ref! succeeds exactly when the value is
\* not equal to ref, and returns null when it is equal.
C9_TrailingBangNegates ==
  (TagRead /\ parts.ty \in ScalarTypes /\ parts.bang = "after" /\ FieldInRange)
    => /\ res.st = "ok"
       /\ res.v = IF ~RefMatches THEN FieldValue ELSE Null

\* C9, amended: a scalar tag base!=ref succeeds exactly when the value is
\* not equal to ref and returns null when it is equal; a scalar tag
\* base=ref! succeeds exactly when the value is equal to ref.
C9_LeadingBangNegates ==
  (TagRead /\ parts.ty \in ScalarTypes /\ parts.bang \in {"before", "after"} /\ FieldInRange)
    => /\ res.st = "ok"
       /\ res.v = IF (parts.bang = "before") = ~RefMatches THEN FieldValue ELSE Null

\* a tag base!=ref met the value ref and returned null
C9_Witness ==
  /\ TagRead /\ parts.ty \in ScalarTypes /\ parts.bang = "before" /\ FieldInRange
  /\ RefMatches /\ res.st = "ok" /\ res.v = Null

(***************************************************************************)
(* Structs, branches, offsets and computed lengths.                        *)
(***************************************************************************)
\* readStruct or readType has returned or thrown
ReadDone == pc # "init"

\* the log on entry to the loop of readStruct: readType logs the definition
\* before it passes it on
BaseLog == IF pc \in {"readStruct", "writeStruct"} THEN <<>> ELSE <<[t |-> def, at |-> start]>>

\* the state after fields 1..k of def were decoded one after the other and
\* none was null; "stopped" when one of them was null or threw
RECURSIVE FieldRun(_)
FieldRun(k) ==
  IF k = 0 THEN Ret(Obj(<<>>), start, dv, BaseLog)
  ELSE LET p == FieldRun(k - 1)
           r == readType(p.view, p.idx, def.f[k][2], p.v, p.log)
       IN IF p.st # "ok" THEN p
          ELSE IF r.st = "ok" /\ ~IsNullish(r.v)
          THEN Ret(SetProp(p.v, def.f[k][1], r.v), r.idx, r.view, r.log)
          ELSE [st |-> "stopped"]

\* the decode of field k of def after the fields before it
FieldAt(k) ==
  LET p == FieldRun(k - 1)
  IN readType(p.view, p.idx, def.f[k][2], p.v, p.log)

\* field k is the first field of def that decodes to null
FirstNoMatch(k) ==
  /\ FieldRun(k - 1).st = "ok"
  /\ FieldAt(k).st = "ok" /\ IsNullish(FieldAt(k).v)

\* no record in the value has a null field, at any depth
RECURSIVE NoNullField(_)
NoNullField(v) ==
  CASE v.k = "obj" -> \A i \in 1..Len(v.f) : ~IsNullish(v.f[i][2]) /\ NoNullField(v.f[i][2])
    [] v.k = "arr" -> \A i \in 1..Len(v.e) : NoNullField(v.e[i])
    [] OTHER -> TRUE

\* C3: readStruct decodes the fields in declared order; when a field decodes
\* to null the struct is null, nothing is decoded after that field, and no
\* record with a null field is returned, at any depth.
C3_FirstNoMatchAborts ==
  ReadDone =>
    /\ def.k = "obj" =>
         \A k \in 1..Len(def.f) :
           FirstNoMatch(k) =>
             /\ res.st = "ok" /\ res.v = Null
             /\ res.log = FieldAt(k).log /\ res.idx = FieldAt(k).idx
    /\ res.st = "ok" => NoNullField(res.v)

\* a struct whose second field, not its last, decoded to null: the struct is
\* null
C3_Witness ==
  /\ ReadDone /\ def.k = "obj" /\ Len(def.f) >= 3
  /\ FirstNoMatch(2) /\ res.v = Null

\* the definition is a branch
IsBranch(d) == d.k = "arr" /\ Len(d.e) >= 2 /\ d.e[2].k \in {"obj", "arr", "null"}

\* the decode of alternative k of the branch def from the start offset
AltRes(k) == readType(dv, start, def.e[k], Obj(<<>>), <<>>)

\* alternative k is the first whose decode is not null
FirstSuccess(k) ==
  /\ \A j \in 1..(k - 1) : AltRes(j).st = "ok" /\ IsNullish(AltRes(j).v)
  /\ AltRes(k).st = "ok" /\ ~IsNullish(AltRes(k).v)

\* the readType calls of the branch and of its alternatives 1..k
RECURSIVE BranchLog(_)
BranchLog(k) ==
  IF k = 0 THEN <<[t |-> def, at |-> start]>> ELSE BranchLog(k - 1) \o AltRes(k).log

\* C4: a branch tries its alternatives in declared order from the offset
\* where the branch started; its result and end offset are those of the
\* first alternative that succeeds, no later alternative is attempted, and
\* it is null when every alternative fails.
C4_FirstSuccessWins ==
  (ReadDone /\ IsBranch(def)) =>
    /\ \A k \in 1..Len(def.e) :
         FirstSuccess(k) =>
           /\ res.st = "ok" /\ res.v = AltRes(k).v /\ res.idx = AltRes(k).idx
           /\ res.log = BranchLog(k)
    /\ (\A k \in 1..Len(def.e) : AltRes(k).st = "ok" /\ IsNullish(AltRes(k).v))
         => res.st = "ok" /\ res.v = Null

\* C5: an alternative that decodes to the number 0 or to the empty string,
\* the alternatives before it having decoded to null, wins the branch.
C5_ZeroWins ==
  (ReadDone /\ IsBranch(def)) =>
    \A k \in 1..Len(def.e) :
      (FirstSuccess(k) /\ AltRes(k).v \in {Num(0), JStr(<<>>)}) =>
        res.st = "ok" /\ res.v = AltRes(k).v /\ res.idx = AltRes(k).idx

\* the decode succeeded
Decoded == ReadDone /\ res.st = "ok" /\ ~IsNullish(res.v)

ScalarNodes == {Tuint8, Tuint16, Tcstring, TEq("uint16", <<49>>)}
ZeroWidthNodes ==
  {Obj(<<>>), Arr(<<Tuint8, Num(0)>>), JStr(NameOf("string") \o <<58, 48>>)}

ExprOf(d) == CHOOSE e \in Exprs : d.f[Len(d.f)][2].e[2].s = ExprStr(e)

\* the bytes of the fields before data, which the terms n and m name
HeaderLen == Len(def.f) - 1
TermVal(t) ==
  IF t = <<110>> THEN dv.buffer[start + 1]
  ELSE IF t = <<109>> THEN dv.buffer[start + 2]
  ELSE DecVal(t)

\* the fraction <<p, q>> after one more operator and term
Apply(acc, op, x) ==
  CASE op = 43 -> <<acc[1] + x * acc[2], acc[2]>>
    [] op = 45 -> <<acc[1] - x * acc[2], acc[2]>>
    [] op = 42 -> <<acc[1] * x, acc[2]>>
    [] op = 47 -> <<acc[1], acc[2] * x>>

\* the expression combined strictly left to right from 0, the first term
\* added, as a fraction <<p, q>>
RECURSIVE LeftToRight(_, _)
LeftToRight(e, k) ==
  IF k = 0 THEN Apply(<<0, 1>>, 43, TermVal(e.first))
  ELSE Apply(LeftToRight(e, k - 1), e.rest[k][1], TermVal(e.rest[k][2]))

\* the data field of a decoded record
DataOf(v) == GetProp(v, Chars(fdata))

\* C10: an array whose length is an arithmetic expression decodes exactly as
\* many elements as the expression gives when its terms are combined
\* strictly left to right from 0, the first term added, without precedence;
\* for uint8 elements that lie in the buffer the decode succeeds and the
\* elements are the bytes that follow.
C10_LeftToRightLength ==
  (ReadDone /\ def \in ExprStructs /\ HeaderLen <= Remaining) =>
    LET e == ExprOf(def)
        len == LeftToRight(e, Len(e.rest))
        count == len[1] \div len[2]
        from == start + HeaderLen
    IN (len[1] >= 0 /\ len[1] % len[2] = 0) =>
         /\ res.st = "ok" => Len(DataOf(res.v).e) = count
         /\ (def.f[Len(def.f)][2].e[1] = Tuint8 /\ HeaderLen + count <= Remaining) =>
              /\ res.st = "ok"
              /\ DataOf(res.v).e = [i \in 1..count |-> Num(dv.buffer[from + i])]

\* {n:'uint8', data:['uint8','n-1']} over [5,10,20,30,40]: data is
\* [10,20,30,40]
C10_Witness ==
  /\ ReadDone /\ def = NMinus1Def /\ dv.buffer = NMinus1Buffer /\ start = 0
  /\ res.st = "ok" /\ DataOf(res.v).e = <<Num(10), Num(20), Num(30), Num(40)>>

(***************************************************************************)
(* Lengths that name a field not yet decoded (src/structdef.js:140-156,    *)
(* 168-235).                                                               *)
(***************************************************************************)
\* C11: an array whose length specifier names a field that is not yet
\* decoded makes the decode fail with an error: it returns no value, neither
\* an array of some default length nor null.
C11_UnknownLengthFails == (ReadDone /\ def \in UnknownLengthDefs) => res.st # "ok"

(***************************************************************************)
(* '*' arrays (src/structdef.js:120-128).                                  *)
(***************************************************************************)
\* the bytes of the buffer from the start offset on
Rest == SubSeq(dv.buffer, start + 1, Len(dv.buffer))

\* the number of bytes of b before its first zero
RECURSIVE NonZeroRun(_)
NonZeroRun(b) == IF b = <<>> \/ b[1] = 0 THEN 0 ELSE 1 + NonZeroRun(Tail(b))

\* C12: a '*' array stops only at the end of the buffer or at an element
\* that does not match; the elements before are kept in order, and an
\* element that decodes to a falsy value (0) is appended and the decode goes
\* on: ['uint8', '*'] gives every remaining byte, [{a:'uint8!=0'}, '*'] the
\* records of the bytes before the first zero.
C12_StarKeepsFalsy ==
  (ReadDone /\ start <= Len(dv.buffer)) =>
    /\ def = StarOfBytes =>
          res.st = "ok" /\ res.v = Arr([i \in 1..Len(Rest) |-> Num(Rest[i])])
    /\ def = StarOfRecords =>
          res.st = "ok" /\ res.v = Arr([i \in 1..NonZeroRun(Rest) |->
                                          Obj(<<(<<Chars(fa), Num(Rest[i])>>)>>)])

\* C13: when a '*' array stops at an element that does not match, the
\* offset after the array is the offset at which that element's attempt
\* started: the bytes the failed attempt consumed are not counted.
C13_FailedAttemptDiscarded ==
  (ReadDone /\ start <= Len(dv.buffer) /\ res.st = "ok") =>
    /\ (def = StarOfRecords /\ NonZeroRun(Rest) < Len(Rest)) =>
          res.idx = start + NonZeroRun(Rest)
    /\ (def = StarOfPairs /\ Len(Rest) >= 2 /\ Rest[2] = 0) => res.idx = start

\* C14: decoding a '*' array terminates for every element schema and every
\* buffer, also when an element decodes successfully without consuming a
\* byte (an empty struct, a zero-length array): the call returns or throws.
C14_StarTerminates == (ReadDone /\ def \in StarDefs) => res.st # "diverge"

(***************************************************************************)
(* What a decode leaves behind (src/structdef.js:168-228, 334-360).        *)
(***************************************************************************)
\* C15: a decode that returns, with a value or with no match, leaves every
\* byte of the input buffer as it was before the call, for all schemas,
\* typed arrays of either byte order at every alignment included.
C15_DecodeLeavesBuffer == (ReadDone /\ res.st = "ok") => res.view = dv

(***************************************************************************)
(* Typed arrays mapped from a stream (src/DataStream.js:168-220).          *)
(***************************************************************************)
\* the call made last is mapUint16Array or mapUint32Array
Mapped == pc = "stream" /\ call # None /\ call.op = "map"

\* the elements the DataView of the stream gives for the array's bytes
ElementsRead(s, ty, length) ==
  [i \in 1..length |-> Get(dataView(s), ty, s.position + (i - 1) * SizeOf(ty), s.endianness)]

\* C16: mapping a typed array gives the same element values at an offset
\* that satisfies the element alignment and at one that does not: over bytes
\* the stream holds, the call returns an array of the values a DataView
\* reads there, and at a misaligned offset it does not fail.
C16_AlignmentIndependent ==
  (Mapped /\ call.before._byteOffset + call.before.position
               + call.arg[2] * SizeOf(call.arg[1]) <= call.before._byteLength) =>
    /\ call.st = "ok"
    /\ call.v.e = ElementsRead(call.before, call.arg[1], call.arg[2])

(***************************************************************************)
(* Growth of the buffer (src/DataStream.js:112-147, 395-441).              *)
(***************************************************************************)
\* C17: on a stream created with no capacity and dynamic growth, after any
\* sequence of N single-byte writes the bytes 0..N-1 of the stream hold the
\* values written, in order: no reallocation drops or alters one.
C17_WrittenBytesKept ==
  (pc = "stream" /\ writes.only) =>
    /\ writes.vals # <<>> => call.st = "ok"
    /\ byteLength(stream) = Len(writes.vals)
    /\ Len(stream._buffer) >= Len(writes.vals)
    /\ \A i \in 1..Len(writes.vals) : stream._buffer[i] = writes.vals[i]

\* three bytes, not all the same, were written and the buffer was replaced
\* by one of four bytes on the way
C17_Witness ==
  /\ pc = "stream"
  /\ writes.only
  /\ Len(writes.vals) = 3
  /\ writes.vals[1] # writes.vals[2]
  /\ Len(stream._buffer) = 4

\* the call made last is a write; its width
Wrote == pc = "stream" /\ call # None /\ call.op \in {"writeUint8", "writeUint16"}
Width == IF call.op = "writeUint8" THEN 1 ELSE 2

\* the write made last, with dynamic growth, needed more than the capacity
Grew ==
  /\ Wrote
  /\ call.before._dynamicSize
  /\ call.before._byteOffset + call.before.position + Width > Len(call.before._buffer)

\* C18 as stated: the new capacity is the old one doubled repeatedly until
\* it is at least position + width, it is never exactly the required size,
\* and the logical length is position + width.
C18_NeverExactFit ==
  Grew =>
    /\ \E k \in 1..MaxStreamSize :
         Len(stream._buffer) = Len(call.before._buffer) * Pow2(k)
    /\ Len(stream._buffer) >= call.before.position + Width
    /\ Len(stream._buffer) # call.before.position + Width
    /\ byteLength(stream) = call.before.position + Width

\* C18: the new capacity is the old one, or 1 when the old one is 0, doubled
\* until it is at least byteOffset + position + width, and no further: it
\* may equal the required size; the write succeeds and the logical length is
\* position + width.
C18_DoubledFromOne ==
  Grew =>
    /\ call.st = "ok"
    /\ \E k \in 0..MaxStreamSize :
         /\ Len(stream._buffer) = Max(1, Len(call.before._buffer)) * Pow2(k)
         /\ Len(stream._buffer) >= call.before._byteOffset + call.before.position + Width
         /\ k > 0 => Len(stream._buffer) \div 2
                       < call.before._byteOffset + call.before.position + Width
    /\ byteLength(stream) = call.before.position + Width

\* a two-byte write that needs three bytes of a one-byte buffer: the
\* capacity is doubled twice
C18_Witness ==
  /\ Grew
  /\ Width = 2
  /\ Len(call.before._buffer) = 1
  /\ Len(stream._buffer) = 4

(***************************************************************************)
(* Writes without dynamic growth (src/DataStream.js:41-51, 112-115).       *)
(***************************************************************************)
\* the write made last, without dynamic growth, ends beyond the capacity
Overran ==
  /\ Wrote
  /\ ~call.before._dynamicSize
  /\ call.before._byteOffset + call.before.position + Width > Len(call.before._buffer)

\* C19: with dynamic growth disabled, a write that ends beyond the capacity
\* throws and leaves the bytes, the logical length and the position as they
\* were: no prefix of the value is written.
C19_FullBufferUntouched == Overran => (call.st = "RangeError" /\ stream = call.before)

\* a two-byte write with one byte of room left
C19_Witness ==
  /\ Overran
  /\ Width = 2
  /\ call.before._byteOffset + call.before.position + 1 = Len(call.before._buffer)

(***************************************************************************)
(* Reads beyond the logical length (src/DataStream.js:346-392).            *)
(***************************************************************************)
\* the call made last is a read; the width read
DidRead == pc = "stream" /\ call # None /\ call.op \in {"readUint8", "readUint16"}
WidthRead == IF call.op = "readUint8" THEN 1 ELSE 2

\* C20: a read of width w at position p with p + w beyond the logical length
\* of the stream throws, returns no value and does not move the position,
\* also when the bytes lie in capacity that growth allocated and no write
\* reached.
C20_ReadBeyondLengthFails ==
  (DidRead /\ call.before.position + WidthRead > byteLength(call.before)) =>
    (call.st = "RangeError" /\ stream.position = call.before.position)

(***************************************************************************)
(* The position of a stream (src/DataStream.js:149-165).                   *)
(***************************************************************************)
\* C21: in every state reached through the constructor, seek, reads, writes
\* and map calls the position lies between 0 and the logical length
\* (byteLength), and seek(pos) leaves the position at pos clamped to the
\* logical length.
C21_PositionWithinLength ==
  pc = "stream" =>
    /\ 0 <= stream.position
    /\ stream.position <= byteLength(stream)
    /\ (call # None /\ call.op = "seek") =>
         stream.position = Min(Max(call.arg, 0), byteLength(call.before))

\* C22: isEof() is true exactly when the position has reached the logical
\* length that byteLength reports, for every byteOffset the stream was
\* created with and whatever capacity lies unused behind it.
C22_EofAtLength ==
  pc = "stream" => (isEof(stream) <=> stream.position >= byteLength(stream))

(***************************************************************************)
(* One-tag writes (src/structdef.js:250-330).                              *)
(***************************************************************************)
\* C23: for every scalar, string and cstring tag that the decode accepts,
\* suffixes ':paddedTo' and '=ref' and the names 'string:N', 'int8le' and
\* 'uint8le' included, encoding the decoded value with the tag completes
\* without error and advances the offset by the number of bytes the decode
\* consumed.
C23_LayoutSymmetry ==
  (pc = "writeType" /\ parts.ty # "none" /\ ~IsNullish(res.v)) =>
    (wres.st = "ok" /\ wres.idx = res.idx)

(***************************************************************************)
(* flipArrayEndianness (src/structdef.js:350-360).                         *)
(***************************************************************************)
\* the byte that stands at index p (from 1) of the buffer when every
\* element slot of the array a is reversed: inside the array's range the
\* byte at the mirrored place of the same slot, outside it the byte itself
Mirrored(buffer, a, p) ==
  IF p > a.byteOffset /\ p <= a.byteOffset + a.length * a.BYTES_PER_ELEMENT
  THEN buffer[a.byteOffset
              + ((p - a.byteOffset - 1) \div a.BYTES_PER_ELEMENT) * a.BYTES_PER_ELEMENT
              + a.BYTES_PER_ELEMENT - ((p - a.byteOffset - 1) % a.BYTES_PER_ELEMENT)]
  ELSE buffer[p]

\* C24: flipArrayEndianness reverses the bytes inside each element slot in
\* place and nothing else: after one call (and after any odd number) every
\* slot holds its first bytes reversed and the bytes outside the array's
\* range are as they were; after two calls (any even number) the buffer
\* holds its first bytes again. The bytes of the array are then those the
\* decode's arrayToNative works with.
C24_FlipReversesSlots ==
  pc = "flip" =>
    /\ Len(array.a.buffer) = Len(array.original)
    /\ \A p \in 1..Len(array.original) :
         array.a.buffer[p] = IF array.flips % 2 = 1
                             THEN Mirrored(array.original, array.a, p)
                             ELSE array.original[p]
    /\ array.flips % 2 = 1 =>
         SubSeq(array.a.buffer, array.a.byteOffset + 1,
                array.a.byteOffset + array.a.length * array.a.BYTES_PER_ELEMENT)
           = flipArrayEndianness(
               SubSeq(array.original, array.a.byteOffset + 1,
                      array.a.byteOffset + array.a.length * array.a.BYTES_PER_ELEMENT),
               array.a.BYTES_PER_ELEMENT)

\* an array of one element of two bytes behind two other bytes, flipped
\* once, with a changed slot
C24_Witness ==
  /\ pc = "flip"
  /\ array.flips = 1
  /\ array.a.BYTES_PER_ELEMENT = 2
  /\ array.a.length = 1
  /\ array.a.byteOffset = 2
  /\ array.a.buffer # array.original

(***************************************************************************)
(* The offset after a struct or a branch that did not match                *)
(* (src/structdef.js:4-15, 157-164).                                       *)
(***************************************************************************)
\* C25: when the decode of a struct or of a branch returns null, the offset
\* afterwards is the offset at which the decode of that node started: no
\* advance of the fields before the failing one, or of the last
\* alternative, is left behind.
C25_NoMatchRestoresOffset ==
  (ReadDone /\ (def.k = "obj" \/ IsBranch(def)) /\ res.st = "ok" /\ res.v = Null)
    => res.idx = start

(***************************************************************************)
(* Arrays of composite elements (src/structdef.js:229-235).                *)
(***************************************************************************)
\* the value holds no null: no null field and no null array element, at
\* any depth
RECURSIVE NoNullInside(_)
NoNullInside(v) ==
  CASE v.k = "obj" -> \A i \in 1..Len(v.f) : ~IsNullish(v.f[i][2]) /\ NoNullInside(v.f[i][2])
    [] v.k = "arr" -> \A i \in 1..Len(v.e) : ~IsNullish(v.e[i]) /\ NoNullInside(v.e[i])
    [] OTHER -> TRUE

\* C26: a record that readStruct returns holds no null at any depth: when
\* an element of an array of composite elements of a fixed or field-sized
\* length does not match, the struct around it is null and no record with
\* a null element is returned.
C26_NoNullElement ==
  (ReadDone /\ def \in CompositeArrayDefs /\ res.st = "ok" /\ res.v # Null)
    => NoNullInside(res.v)

(***************************************************************************)
(* Decoding through a DataView that starts inside its ArrayBuffer,         *)
(* new DataView(buffer, byteOffset) with byteOffset > 0.                   *)
(***************************************************************************)
MaxViewOffset == 1

\* arrays of numbers, and the scalars and structs they are compared with
ViewArrays == {Arr(<<Tuint8, Num(1)>>), Arr(<<Tuint8, Num(2)>>), Arr(<<Tuint16, Num(1)>>)}

ViewDefs ==
  ViewArrays
    \cup {Tuint8, Tuint16, Obj(<<F(fa, Tuint8), F(fb, Tuint8)>>),
          Obj(<<F(fdata, Arr(<<Tuint8, Num(2)>>))>>)}

\* new DataView(b, o) for 0 < o <= b.byteLength
OffsetViews ==
  {DataView(b, o) : b \in {c \in SeqsUpTo(MaxLen, Bytes) : Len(c) >= MaxViewOffset},
                    o \in 1..MaxViewOffset}

InitView ==
  /\ def \in ViewDefs
  /\ parts = NoParts
  /\ dv \in OffsetViews
  /\ start \in 0..MaxStart
  /\ littleEndian \in BOOLEAN
  /\ pc = "init"
  /\ res = None
  /\ wres = None
  /\ NoStream
  /\ NoAux

SpecView == InitView /\ [][Next]_vars

\* C27: over a DataView with a non-zero byteOffset, the elements of an
\* array of numbers decoded at offset i are the values that the scalar
\* decodes at i, i + size, ... of the same DataView return.
C27_ArrayAddressesView ==
  (pc = "readType" /\ def \in ViewArrays /\ res.st = "ok") =>
    \A j \in 1..Len(res.v.e) :
      LET size == IF def.e[1] = Tuint8 THEN 1 ELSE 2
          scalar == readType(dv, start + (j - 1) * size, def.e[1], Obj(<<>>), <<>>)
      IN scalar.st = "ok" /\ scalar.v = res.v.e[j]

(***************************************************************************)
(* Mapping the same range of a stream twice.                               *)
(***************************************************************************)
\* the first n bytes of the buffer b
Kept(b, n) == SubSeq(b, 1, Min(n, Len(b)))

\* C28: stream.mapUint16Array(length) called twice at the same position
\* returns the same element values both times, and the bytes of the stream
\* after the two calls are the bytes before them, for either endianness.
C28_MapRepeatable ==
  pc = "stream" =>
    \A length \in 1..MaxMapLength :
      LET first == mapXxxArray(stream, "uint16", length)
          second == mapXxxArray(first.s, "uint16", length)
      IN first.st = "ok" =>
           /\ second.st = "ok"
           /\ second.v.e = first.v.e
           /\ Kept(second.s._buffer, stream._byteLength)
                = Kept(stream._buffer, stream._byteLength)

(***************************************************************************)
(* Logical length and capacity (src/DataStream.js:112-147).                *)
(***************************************************************************)
\* the stream r holds the first _byteLength bytes of the stream s, and its
\* logical length is within its capacity
Preserves(s, r) ==
  /\ r._byteLength <= Len(r._buffer)
  /\ Kept(r._buffer, s._byteLength) = Kept(s._buffer, s._byteLength)

\* C29: in every state of a stream the logical length is at most the
\* capacity, _byteLength <= _buffer.byteLength, and a reallocation or a
\* trim of that stream keeps its first _byteLength bytes; so does the trim
\* that the call made last did.
C29_LengthWithinCapacity ==
  pc = "stream" =>
    /\ stream._byteLength <= Len(stream._buffer)
    /\ \A extra \in 1..MaxStreamSize : Preserves(stream, _realloc(stream, extra))
    /\ Preserves(stream, _trimAlloc(stream))
    /\ _trimAlloc(stream)._byteLength = Len(_trimAlloc(stream)._buffer)
    /\ (call # None /\ call.op = "dynamicSize") => Preserves(call.before, stream)

\* stream.dynamicSize = false has trimmed a buffer that held a written byte
C29_Witness ==
  /\ pc = "stream"
  /\ call # None
  /\ call.op = "dynamicSize"
  /\ Len(stream._buffer) = 3
  /\ Len(call.before._buffer) = 4
  /\ stream._buffer[3] # 0

(***************************************************************************)
(* ABStruct (src/ABstruct.js): classes of accessors over a DataView.  def  *)
(* is the definition given to ABStruct.create, dv the DataView of the      *)
(* instance, abv[k] the typed array that the accessors of the k-th         *)
(* property share (null until one of them makes it).                       *)
(***************************************************************************)
MaxStructOffset == 1

\* ABStruct.lengths[t]
lengths(t) == SizeOf(CaseOf(t.s))

\* idx[0] += lengths[t], idx[0] += lengths[t] * len
Advance(t) == IF t.k = "str" THEN lengths(t) ELSE lengths(t.e[1]) * t.e[2].n

\* ABStruct.create: the i = idx[0] that ABStruct.getter sees for the k-th
\* property of d
RECURSIVE create(_, _)
create(d, k) == IF k = 1 THEN 0 ELSE create(d, k - 1) + Advance(d.f[k - 1][2])

\* MyStruct-like definitions: scalars before and after an array
StructDefs ==
  { Obj(<<F(fa, Tuint8), F(fdata, Arr(<<Tuint8, Num(2)>>))>>),
    Obj(<<F(fdata, Arr(<<Tuint8, Num(2)>>)), F(fa, Tuint8)>>),
    Obj(<<F(fa, Tuint16), F(fdata, Arr(<<Tuint16, Num(1)>>)), F(fb, Tuint8)>>),
    Obj(<<F(fa, Tuint8), F(fdata, Arr(<<Tuint16, Num(1)>>))>>) }

\* new v(buffer, at, len): the typed array, or the RangeError of an offset
\* that is not a multiple of the element size or of a range beyond the
\* buffer
NewArray(buffer, ty, at, len) ==
  IF at % SizeOf(ty) # 0 \/ at + len * SizeOf(ty) > Len(buffer)
  THEN [st |-> "RangeError"]
  ELSE [st |-> "ok", ty |-> ty, byteOffset |-> at, length |-> len]

\* the elements of the typed array a over the buffer
Viewed(buffer, a) ==
  Elements(a.ty, SubSeq(buffer, a.byteOffset + 1, a.byteOffset + a.length * SizeOf(a.ty)))

\* abv[i] = nv[i] for i < abv.length: the buffer after the loop; an element
\* that nv lacks is stored as 0
Assigned(buffer, a, nv) ==
  LET size == SizeOf(a.ty)
      native(v) == IF littleEndian THEN Reverse(Encode(a.ty, v)) ELSE Encode(a.ty, v)
      element(j) == IF j <= Len(nv) THEN Num(nv[j]) ELSE Undefined
      byte(q) == native(element((q \div size) + 1))[(q % size) + 1]
  IN [p \in 1..Len(buffer) |->
        IF p > a.byteOffset /\ p <= a.byteOffset + a.length * size
        THEN byte(p - a.byteOffset - 1) ELSE buffer[p]]

\* the accessors that ABStruct.getter returns for the k-th property: the
\* outcome [st, v, dv, abv] of get and of set(nv)
getter(k) ==
  LET t == def.f[k][2]
      i == create(def, k)
      done(st, v, view, a) == [st |-> st, v |-> v, dv |-> view, abv |-> a]
      cached(at) ==
        IF abv[k] # None THEN abv[k]
        ELSE NewArray(dv.buffer, CaseOf(t.e[1].s), at, t.e[2].n)
      got(a) ==
        IF a.st # "ok" THEN done(a.st, Undefined, dv, abv)
        ELSE done("ok", Viewed(dv.buffer, a), dv, [abv EXCEPT ![k] = a])
      put(a, nv) ==
        IF a.st # "ok" THEN done(a.st, Undefined, dv, abv)
        ELSE done("ok", Undefined, [dv EXCEPT !.buffer = Assigned(dv.buffer, a, nv)],
                  [abv EXCEPT ![k] = a])
  IN IF t.k = "str"
     THEN [get |-> done("ok", Get(dv, CaseOf(t.s), i, FALSE), dv, abv),
           set |-> [nv \in {1, 2, 258} |->
                      done("ok", Undefined, Set(dv, CaseOf(t.s), i, Num(nv), FALSE), abv)]]
     \* in set the i of for (var i = 0; ...) is the function's own and is
     \* undefined when the array is made: byteOffset + i is NaN, offset 0
     ELSE [get |-> got(cached(dv.byteOffset + i)),
           set |-> [nv \in SeqsUpTo(2, {1, 2}) |-> put(cached(ToIndex(NaN)[2]), nv)]]

\* var dv = new DataView(new ArrayBuffer(n), o); var s = new MyStruct(dv)
InitStruct ==
  /\ def \in StructDefs
  /\ parts = NoParts
  /\ \E o \in 0..MaxStructOffset :
       dv = DataView([p \in 1..(o + create(def, Len(def.f) + 1)) |-> 0], o)
  /\ start = 0
  /\ littleEndian \in BOOLEAN
  /\ pc = "struct"
  /\ res = None
  /\ wres = None
  /\ NoStream
  /\ array = None
  /\ abv = [k \in 1..Len(def.f) |-> None]

\* the access op of property k with the outcome r
Accessed(op, k, nv, r) ==
  /\ dv' = r.dv
  /\ abv' = r.abv
  /\ call' = [op |-> op, field |-> k, arg |-> nv, st |-> r.st, v |-> r.v,
              before |-> [dv |-> dv, abv |-> abv]]
  /\ UNCHANGED <<def, parts, start, littleEndian, pc, res, wres, stream, writes, array>>

\* s[name]
CallGet ==
  /\ pc = "struct"
  /\ \E k \in 1..Len(def.f) : Accessed("get", k, <<>>, getter(k).get)

\* s[name] = nv
CallSet ==
  /\ pc = "struct"
  /\ \E k \in 1..Len(def.f) :
       \E nv \in DOMAIN getter(k).set :
         /\ def.f[k][2].k = "str" => nv < 256 * lengths(def.f[k][2])
         /\ Accessed("set", k, nv, getter(k).set[nv])

NextStruct == CallGet \/ CallSet

SpecStruct == InitStruct /\ [][NextStruct]_vars

\* the assignment made last is one to an array property
SetArray ==
  /\ pc = "struct"
  /\ call # None
  /\ call.op = "set"
  /\ call.st = "ok"
  /\ def.f[call.field][2].k = "arr"

\* C30: s[name] = nv on an array property writes the elements at the
\* property's own offset, byteOffset of the DataView plus the sizes of the
\* properties before it, which is where its getter reads, whether or not
\* the getter was called before, and leaves every other byte as it was.
C30_SetterWritesOwnField ==
  SetArray =>
    LET own == dv.byteOffset + create(def, call.field)
        bytes == Advance(def.f[call.field][2])
    IN /\ abv[call.field].byteOffset = own
       /\ \A j \in 1..Len(call.arg) :
            j <= abv[call.field].length => Viewed(dv.buffer, abv[call.field])[j] = Num(call.arg[j])
       /\ \A p \in 1..Len(dv.buffer) :
            (p <= own \/ p > own + bytes) => dv.buffer[p] = call.before.dv.buffer[p]

====
